---- MODULE Spec2Model ----
(***************************************************************************)
(* A state-machine model of components of the pipecat repository:          *)
(*                                                                         *)
(*   OutputGate               examples/foundational/                       *)
(*                            22b-natural-conversation-proposal.py         *)
(*   BaseInputTransport       src/pipecat/transports/base_input.py         *)
(*   AWSTranscribeSTTService  src/pipecat/services/aws/stt.py              *)
(*   RemoteSmartTurnAnalyzer  src/pipecat/audio/turn/remote_smart_turn.py  *)
(*   LocalCoreMLSmartTurnAnalyzer                                          *)
(*                            src/pipecat/audio/turn/smart_turn/           *)
(*                            local_coreml_smart_turn.py                   *)
(*   PipelineTask, Notifier, ParallelPipeline                              *)
(*                            as the specification describes them          *)
(*                                                                         *)
(* Scheduling.  The processors run on one asyncio event loop.  A handler   *)
(* runs without interruption up to an await that can suspend.  The awaits  *)
(* that matter are: the Notifier wait and every push_frame of the gate's   *)
(* release task (the pushed frame is handed to the next processor, whose   *)
(* work may suspend), the queue get and the two run_in_executor calls of   *)
(* the audio task.  In OutputGate.process_frame every branch ends with its *)
(* push_frame, so a suspension inside that push is followed by no further  *)
(* statement of the handler and the handler is one step of the model.      *)
(* In AWSTranscribeSTTService the awaits that suspend are the wait for the *)
(* connection lock when it is held, websocket_connect, the send and close  *)
(* calls on a websocket, cancel_task on a receive task that is alive,      *)
(* asyncio.sleep, and the yield of run_stt.                                *)
(*                                                                         *)
(* Each component has its own specification; the variables of the other    *)
(* components keep the values they have after construction.  SpecLifecycle *)
(* runs the input transport and the gate side by side.                     *)
(***************************************************************************)
EXTENDS Integers, Sequences, FiniteSets, TLC

\* ------------------------------------------------------------------ bounds

\* Number of frames delivered to OutputGate.process_frame in one run.
MaxGateFrames == 5
\* Number of those frames that are not a TextFrame travelling DOWNSTREAM.
MaxGateControl == 2
\* Number of inputs of BaseInputTransport in one run: frames delivered to
\* process_frame plus audio frames given to push_audio_frame.
MaxInputEvents == 5
\* Number of calls of start(), run_stt() and stop() or cancel() made on the
\* AWSTranscribeSTTService in one run.
MaxSTTCalls == 3
\* Number of websockets the service opens in one run.
MaxSockets == 3
\* Number of end-of-turn analyzers constructed in one run.
MaxAnalyzers == 3
\* Number of frames submitted to the PipelineTask in one run.
MaxSubmitted == 4
\* Number of coroutines waiting on one Notifier.
MaxWaiters == 3
\* Number of notify calls on that Notifier in one run.
MaxNotifies == 3
\* Number of frames given to the ParallelPipeline in one run.
MaxParallelFrames == 5

\* ------------------------------------------------------------------ frames

Directions == {"DOWNSTREAM", "UPSTREAM"}

\* The frame classes OutputGate.process_frame distinguishes, and TextFrame as
\* the representative of every other (data) frame.
GateFrameKinds ==
    {"StartFrame", "EndFrame", "CancelFrame", "StartInterruptionFrame",
     "StopInterruptionFrame", "FunctionCallInProgressFrame",
     "FunctionCallResultFrame", "TextFrame"}

\* isinstance(frame, SystemFrame).  EndFrame is a control frame, not a system
\* frame: BaseInputTransport.process_frame handles it in a branch placed after
\* the isinstance(frame, SystemFrame) catch-all, under "Control frames".
SystemFrameKinds ==
    {"StartFrame", "CancelFrame", "StartInterruptionFrame", "StopInterruptionFrame",
     "BotInterruptionFrame", "EmulateUserStartedSpeakingFrame",
     "EmulateUserStoppedSpeakingFrame", "UserStartedSpeakingFrame",
     "UserStoppedSpeakingFrame"}

\* A plausible slip in the class hierarchy test: StopInterruptionFrame is taken
\* for a data frame.
IsSystemFrame_NoStopInterruption(frame) ==
    frame.kind \in {"StartFrame", "CancelFrame", "StartInterruptionFrame"}

IsSystemFrame(frame) == frame.kind \in SystemFrameKinds

\* A plausible slip in the function-call test: only the result frame bypasses.
IsFunctionCallFrame_OnlyResult(frame) == frame.kind = "FunctionCallResultFrame"

\* isinstance(frame, (FunctionCallInProgressFrame, FunctionCallResultFrame))
IsFunctionCallFrame(frame) ==
    frame.kind \in {"FunctionCallInProgressFrame", "FunctionCallResultFrame"}

\* direction != FrameDirection.DOWNSTREAM is the gate's "not my direction" test.
FollowsGateDirection(direction) == direction = "DOWNSTREAM"

VARIABLES
    gate_open,        \* OutputGate._gate_open
    frames_buffer,    \* OutputGate._frames_buffer: sequence of (frame, direction)
    gate_task,        \* OutputGate._gate_task: "None" or "Task"
    gate_pc,          \* position of the release task: "dead", "wait", "flush"
    iter_list,        \* the list object the release task's for-loop iterates
    iter_idx,         \* number of its elements already pushed
    iter_alias,       \* TRUE while _frames_buffer still names that list object
    notifier_event,   \* the Notifier's signalled flag
    gate_in,          \* history: frames delivered to process_frame
    gate_out,         \* history: frames the gate pushed to its neighbour
    notified_fresh,   \* history: notify() was called after the last
                      \* StartInterruptionFrame delivered to the gate
    wake_buffer,      \* history: the buffer as the release task found it on
                      \* the wake whose flush is in progress
    wake_out,         \* history: Len(gate_out) at that wake
    params,           \* BaseInputTransport._params and interruptions_allowed
    audio_task,       \* BaseInputTransport._audio_task: "None" or "Task"
    audio_pc,         \* position of the audio task: "dead", "get", "vad", "eot",
                      \* "raised" (ended by an exception of a classifier call)
    audio_in_queue,   \* BaseInputTransport._audio_in_queue
    audio_frame,      \* the frame the audio task took from the queue (0: none)
    vad_state,        \* local vad_state of _audio_task_handler
    end_of_turn_state, \* local end_of_turn_state of _audio_task_handler
    input_pc,         \* process_frame: "idle", or "stop" between the push of an
                      \* EndFrame and the stop() that follows it
    audio_pushed,     \* number of frames given to push_audio_frame so far
    frames_in,        \* history: the frames delivered to process_frame
    vad_results,      \* history: results of the VAD analyzer since the task began
    eot_results,      \* history: results of the end-of-turn analyzer since then
    analyzer_raised,  \* history: number of classifier calls that raised
    configured,       \* history: number of times start() configured each analyzer
    executor,         \* BaseInputTransport._executor: the calls its worker
                      \* threads run and the calls queued behind them
    input_out,        \* history: frames the transport pushed downstream
    stt,              \* AWSTranscribeSTTService: its fields, its sockets and
                      \* receive loops, and the position of each of its
                      \* coroutines
    environ,          \* os.environ: the value of REMOTE_SMART_TURN_URL
    analyzers,        \* history: the outcome of each construction of an
                      \* end-of-turn analyzer
    pipeline_task,    \* PipelineTask: its submission queue, the frames it
                      \* injected, and the frames it delivered to the pipeline
    notifier,         \* a Notifier with several waiters: its signal and the
                      \* state of each waiter
    parallel_pipeline \* ParallelPipeline([A], [B]): the frames it was given,
                      \* the queue of each branch, the System frame being
                      \* broadcast and the merged output

gate_vars ==
    <<gate_open, frames_buffer, gate_task, gate_pc, iter_list, iter_idx,
      iter_alias, notifier_event, gate_in, gate_out, notified_fresh, wake_buffer,
      wake_out>>

input_vars ==
    <<params, audio_task, audio_pc, audio_in_queue, audio_frame, vad_state,
      end_of_turn_state, input_pc, audio_pushed, frames_in, vad_results,
      eot_results, analyzer_raised, configured, executor, input_out>>

stt_vars == <<stt>>

turn_vars == <<environ, analyzers>>

task_vars == <<pipeline_task>>

notifier_vars == <<notifier>>

parallel_vars == <<parallel_pipeline>>

\* What a step of one component leaves alone.
not_gate_vars ==
    <<input_vars, stt_vars, turn_vars, task_vars, notifier_vars,
      parallel_vars>>

not_input_vars ==
    <<gate_vars, stt_vars, turn_vars, task_vars, notifier_vars,
      parallel_vars>>

not_stt_vars ==
    <<gate_vars, input_vars, turn_vars, task_vars, notifier_vars,
      parallel_vars>>

not_turn_vars ==
    <<gate_vars, input_vars, stt_vars, task_vars, notifier_vars,
      parallel_vars>>

not_task_vars ==
    <<gate_vars, input_vars, stt_vars, turn_vars, notifier_vars,
      parallel_vars>>

not_notifier_vars ==
    <<gate_vars, input_vars, stt_vars, turn_vars, task_vars, parallel_vars>>

not_parallel_vars ==
    <<gate_vars, input_vars, stt_vars, turn_vars, task_vars, notifier_vars>>

vars ==
    <<gate_vars, input_vars, stt_vars, turn_vars, task_vars, notifier_vars,
      parallel_vars>>

\* ------------------------------------------------------------ small helpers

Pair(frame, direction) == [frame |-> frame, direction |-> direction]

\* An entry of gate_out: `by` is the coroutine that pushed the frame and `seen`
\* the number of frames that had been delivered to the gate by then.
Pushed(frame, direction, by, seen) ==
    [frame |-> frame, direction |-> direction, by |-> by, seen |-> seen]

\* The frames delivered to the gate so far that are not a TextFrame travelling
\* DOWNSTREAM.
GateControlDelivered ==
    Cardinality({i \in 1..Len(gate_in) :
                    \/ gate_in[i].frame.kind # "TextFrame"
                    \/ gate_in[i].direction = "UPSTREAM"})

\* ------------------------------------------------------------------ Notifier
\* EventNotifier keeps one flag: notify sets it and wakes the waiters, wait
\* returns once the flag is set and clears it.

NotifierNotify == notifier_event' = TRUE

NotifierWaitReturns == notifier_event

NotifierWaitClears == notifier_event' = FALSE

\* ---------------------------------------------------------------- OutputGate

\* FrameProcessor.push_frame as seen from the gate: the frame is handed to the
\* neighbour in the given direction.  `by` records which coroutine pushed it.
GatePush(frame, direction, by) ==
    gate_out' = Append(gate_out,
                       Pushed(frame, direction, by,
                              IF by = "process_frame"
                              THEN Len(gate_in) + 1
                              ELSE Len(gate_in)))

\* A plausible slip: close_gate leaves the flag as it is.
close_gate_NoEffect == UNCHANGED gate_open

close_gate == gate_open' = FALSE

\* A plausible slip: the release task does not open the gate.
open_gate_KeepsState == UNCHANGED gate_open

open_gate == gate_open' = TRUE

\* self._frames_buffer = [] binds a fresh list: a for-loop in progress keeps
\* iterating the list object it started with.
NewFramesBuffer ==
    /\ frames_buffer' = <<>>
    /\ iter_alias' = FALSE

\* A plausible slip: the pair is inserted at the head of the list.
AppendToFramesBuffer_AtHead(frame, direction) ==
    /\ frames_buffer' = <<Pair(frame, direction)>> \o frames_buffer
    /\ iter_list' = IF gate_pc = "flush" /\ iter_alias
                    THEN <<Pair(frame, direction)>> \o iter_list
                    ELSE iter_list
    /\ UNCHANGED iter_alias

\* self._frames_buffer.append((frame, direction)): mutates the list object in
\* place, so a for-loop over that same object sees the new element.
AppendToFramesBuffer(frame, direction) ==
    /\ frames_buffer' = Append(frames_buffer, Pair(frame, direction))
    /\ iter_list' = IF gate_pc = "flush" /\ iter_alias
                    THEN Append(iter_list, Pair(frame, direction))
                    ELSE iter_list
    /\ UNCHANGED iter_alias

\* OutputGate._start
OutputGate_start ==
    /\ NewFramesBuffer
    /\ IF gate_task = "None"
       THEN gate_task' = "Task" /\ gate_pc' = "wait"
       ELSE UNCHANGED <<gate_task, gate_pc>>
    /\ UNCHANGED <<gate_open, iter_list, iter_idx>>

\* OutputGate._stop: cancel_task returns when the release task has ended; the
\* task ends through its except CancelledError: break, wherever it is suspended.
OutputGate_stop ==
    /\ IF gate_task # "None"
       THEN /\ gate_task' = "None"
            /\ gate_pc' = "dead"
            /\ iter_list' = <<>>
            /\ iter_idx' = 0
            /\ iter_alias' = FALSE
       ELSE UNCHANGED <<gate_task, gate_pc, iter_list, iter_idx, iter_alias>>
    /\ UNCHANGED <<gate_open, frames_buffer>>

\* The StartInterruptionFrame branch: drop the buffer and close the gate.
OutputGate_interrupt ==
    /\ NewFramesBuffer
    /\ close_gate
    /\ UNCHANGED <<gate_task, gate_pc, iter_list, iter_idx>>

GateIdle ==
    UNCHANGED <<gate_open, frames_buffer, gate_task, gate_pc, iter_list,
                iter_idx, iter_alias>>

\* OutputGate.process_frame(frame, direction)
OutputGate_process_frame(frame, direction) ==
    /\ gate_in' = Append(gate_in,
                         [frame |-> frame, direction |-> direction,
                          open |-> gate_open])
    /\ UNCHANGED <<notifier_event, wake_buffer, wake_out>>
    /\ notified_fresh' = IF frame.kind = "StartInterruptionFrame"
                         THEN FALSE
                         ELSE notified_fresh
    /\ IF IsSystemFrame(frame)
       THEN /\ CASE frame.kind = "StartFrame" -> OutputGate_start
                 [] frame.kind \in {"EndFrame", "CancelFrame"} -> OutputGate_stop
                 [] frame.kind = "StartInterruptionFrame" -> OutputGate_interrupt
                 [] OTHER -> GateIdle
            /\ GatePush(frame, direction, "process_frame")
       ELSE IF IsFunctionCallFrame(frame)
       THEN GateIdle /\ GatePush(frame, direction, "process_frame")
       ELSE IF ~FollowsGateDirection(direction)
       THEN GateIdle /\ GatePush(frame, direction, "process_frame")
       ELSE IF gate_open
       THEN GateIdle /\ GatePush(frame, direction, "process_frame")
       ELSE /\ AppendToFramesBuffer(frame, direction)
            /\ UNCHANGED <<gate_open, gate_task, gate_pc, iter_idx, gate_out>>

\* The release task returns from wait(), opens the gate and enters the
\* for-loop; with a non-empty buffer it is next suspended inside the first
\* push_frame, with an empty one it resets the buffer and waits again.
GateTaskWake ==
    /\ gate_pc = "wait"
    /\ NotifierWaitReturns
    /\ NotifierWaitClears
    /\ open_gate
    /\ IF frames_buffer = <<>>
       THEN /\ frames_buffer' = <<>>
            /\ UNCHANGED <<gate_pc, iter_list, iter_idx, iter_alias, gate_out,
                           wake_buffer, wake_out>>
       ELSE /\ gate_pc' = "flush"
            /\ iter_list' = frames_buffer
            /\ iter_idx' = 1
            /\ iter_alias' = TRUE
            /\ GatePush(frames_buffer[1].frame, frames_buffer[1].direction, "gate_task")
            /\ wake_buffer' = frames_buffer
            /\ wake_out' = Len(gate_out)
            /\ UNCHANGED frames_buffer
    /\ UNCHANGED <<gate_task, gate_in, notified_fresh>>
    /\ UNCHANGED not_gate_vars

\* The release task resumes from a push_frame and pushes the next element.
GateTaskPushNext ==
    /\ gate_pc = "flush"
    /\ iter_idx < Len(iter_list)
    /\ iter_idx' = iter_idx + 1
    /\ GatePush(iter_list[iter_idx + 1].frame, iter_list[iter_idx + 1].direction,
                "gate_task")
    /\ UNCHANGED <<gate_open, frames_buffer, gate_task, gate_pc, iter_list,
                   iter_alias, notifier_event, gate_in, notified_fresh, wake_buffer,
                   wake_out>>
    /\ UNCHANGED not_gate_vars

\* A plausible slip: the loop is not followed by self._frames_buffer = [].
GateTaskEndFlush_KeepsBuffer ==
    /\ gate_pc = "flush"
    /\ iter_idx >= Len(iter_list)
    /\ iter_list' = <<>>
    /\ iter_idx' = 0
    /\ iter_alias' = FALSE
    /\ gate_pc' = "wait"
    /\ IF NotifierWaitReturns
       THEN NotifierWaitClears /\ open_gate
       ELSE UNCHANGED <<notifier_event, gate_open>>
    /\ wake_buffer' = <<>>
    /\ wake_out' = 0
    /\ UNCHANGED <<frames_buffer, gate_task, gate_in, gate_out, notified_fresh>>
    /\ UNCHANGED not_gate_vars

\* The release task resumes from the last push_frame: the loop is exhausted,
\* self._frames_buffer = [] runs and the task calls wait() again.  A wait() on
\* a flag that is already set returns at once: the gate is opened again, the
\* (empty) buffer flushed, and only the following wait() suspends.
GateTaskEndFlush ==
    /\ gate_pc = "flush"
    /\ iter_idx >= Len(iter_list)
    /\ frames_buffer' = <<>>
    /\ iter_list' = <<>>
    /\ iter_idx' = 0
    /\ iter_alias' = FALSE
    /\ gate_pc' = "wait"
    /\ IF NotifierWaitReturns
       THEN NotifierWaitClears /\ open_gate
       ELSE UNCHANGED <<notifier_event, gate_open>>
    /\ wake_buffer' = <<>>
    /\ wake_out' = 0
    /\ UNCHANGED <<gate_task, gate_in, gate_out, notified_fresh>>
    /\ UNCHANGED not_gate_vars

\* Another processor (CompletenessCheck, StatementJudgeContextFilter, the
\* user-idle callback) calls notifier.notify().
Notify ==
    /\ ~notifier_event
    /\ NotifierNotify
    /\ notified_fresh' = TRUE
    /\ UNCHANGED <<gate_open, frames_buffer, gate_task, gate_pc, iter_list,
                   iter_idx, iter_alias, gate_in, gate_out, wake_buffer, wake_out>>
    /\ UNCHANGED not_gate_vars

\* A frame arrives at the gate.  Frames are numbered in arrival order.
GateFrameArrives ==
    \E kind \in GateFrameKinds, direction \in Directions :
        /\ Len(gate_in) < MaxGateFrames
        /\ (kind # "TextFrame" \/ direction = "UPSTREAM") =>
              GateControlDelivered < MaxGateControl
        /\ OutputGate_process_frame([kind |-> kind, id |-> Len(gate_in) + 1], direction)
        /\ UNCHANGED not_gate_vars

GateInit ==
    /\ gate_open \in BOOLEAN
    /\ frames_buffer = <<>>
    /\ gate_task = "None"
    /\ gate_pc = "dead"
    /\ iter_list = <<>>
    /\ iter_idx = 0
    /\ iter_alias = FALSE
    /\ notifier_event = FALSE
    /\ gate_in = <<>>
    /\ gate_out = <<>>
    /\ notified_fresh = FALSE
    /\ wake_buffer = <<>>
    /\ wake_out = 0

GateNext ==
    \/ GateFrameArrives
    \/ Notify
    \/ GateTaskWake
    \/ GateTaskPushNext
    \/ GateTaskEndFlush

\* -------------------------------------------------------- BaseInputTransport

VADStates == {"QUIET", "STARTING", "SPEAKING", "STOPPING"}

EndOfTurnStates == {"INCOMPLETE", "COMPLETE"}

\* The frame classes BaseInputTransport.process_frame distinguishes, with
\* TranscriptionFrame as the representative of the frames it only forwards
\* (one is queued by the on_data_received handler of the LiveKit example).
InputFrameKinds ==
    {"StartFrame", "CancelFrame", "EndFrame", "BotInterruptionFrame",
     "EmulateUserStartedSpeakingFrame", "EmulateUserStoppedSpeakingFrame",
     "TranscriptionFrame"}

\* An emitted frame: its class, the coroutine that pushed it, the audio frame
\* it is or was caused by (0: none), and the emulated flag of speaking frames.
Emitted(kind, by, audio, emulated) ==
    [kind |-> kind, by |-> by, audio |-> audio, emulated |-> emulated]

\* An entry of vad_results: the audio frame and the state _vad_analyze
\* returned for it.
VadResult(audio, state) == [audio |-> audio, state |-> state]

\* An entry of eot_results: the audio frame, the is_speech flag the analyzer
\* was called with and the state it returned.
EotResult(audio, is_speech, state) ==
    [audio |-> audio, is_speech |-> is_speech, state |-> state]

\* ThreadPoolExecutor(max_workers=1)
max_workers == 1

\* A classifier call given to run_in_executor: "vad" or "eot", and the audio
\* frame it analyzes.
Call(analyzer, audio) == [analyzer |-> analyzer, audio |-> audio]

ExecutorIdle == [running |-> {}, pending |-> <<>>]

\* A plausible slip: every submitted call gets a thread of its own.
ExecutorSubmit_OwnThread(ex, call) ==
    [ex EXCEPT !.running = @ \cup {call}]

\* run_in_executor(self._executor, ...): a free worker thread takes the call,
\* otherwise it waits in the executor's queue.
ExecutorSubmit(ex, call) ==
    IF Cardinality(ex.running) < max_workers
    THEN [ex EXCEPT !.running = @ \cup {call}]
    ELSE [ex EXCEPT !.pending = Append(@, call)]

\* A worker thread finishes a call and takes the next one from the queue.
ExecutorDone(ex, call) ==
    IF ex.pending = <<>>
    THEN [ex EXCEPT !.running = @ \ {call}]
    ELSE [running |-> (ex.running \ {call}) \cup {Head(ex.pending)},
          pending |-> Tail(ex.pending)]

\* The awaiting task is cancelled: a call still in the queue is withdrawn, a
\* call a thread is running runs on to its end.
ExecutorCancel(ex, call) ==
    [ex EXCEPT !.pending = SelectSeq(@, LAMBDA c : c # call)]

\* self._params.audio_in_enabled or self._params.vad_enabled
AudioInputWanted == params.audio_in_enabled \/ params.vad_enabled

\* A plausible slip: the interruption frame is pushed ahead of the speaking
\* frame.
handle_user_interruption_InterruptionFirst(kind, by, audio, emulated) ==
    IF kind = "UserStartedSpeakingFrame"
    THEN (IF params.interruptions_allowed
          THEN <<Emitted("StartInterruptionFrame", by, audio, FALSE)>>
          ELSE <<>>)
         \o <<Emitted(kind, by, audio, emulated)>>
    ELSE IF kind = "UserStoppedSpeakingFrame"
    THEN (IF params.interruptions_allowed
          THEN <<Emitted("StopInterruptionFrame", by, audio, FALSE)>>
          ELSE <<>>)
         \o <<Emitted(kind, by, audio, emulated)>>
    ELSE IF kind = "UserEndOfTurnFrame"
    THEN <<Emitted(kind, by, audio, emulated)>>
    ELSE <<>>

\* BaseInputTransport._handle_user_interruption(frame): the frames it pushes.
handle_user_interruption(kind, by, audio, emulated) ==
    IF kind = "UserStartedSpeakingFrame"
    THEN <<Emitted(kind, by, audio, emulated)>>
         \o (IF params.interruptions_allowed
             THEN <<Emitted("StartInterruptionFrame", by, audio, FALSE)>>
             ELSE <<>>)
    ELSE IF kind = "UserStoppedSpeakingFrame"
    THEN <<Emitted(kind, by, audio, emulated)>>
         \o (IF params.interruptions_allowed
             THEN <<Emitted("StopInterruptionFrame", by, audio, FALSE)>>
             ELSE <<>>)
    ELSE IF kind = "UserEndOfTurnFrame"
    THEN <<Emitted(kind, by, audio, emulated)>>
    ELSE <<>>

\* A plausible slip: the test of interruptions_allowed is left out.
handle_bot_interruption_Always ==
    <<Emitted("StartInterruptionFrame", "process_frame", 0, FALSE)>>

\* BaseInputTransport._handle_bot_interruption(frame): the frames it pushes.
handle_bot_interruption ==
    IF params.interruptions_allowed
    THEN <<Emitted("StartInterruptionFrame", "process_frame", 0, FALSE)>>
    ELSE <<>>

\* A plausible slip: any result that differs from the tracked state is taken
\* for a transition.
IsVadTransition_AnyChange(old_vad_state, new_vad_state) ==
    new_vad_state # old_vad_state

\* The test of _handle_vad: a result that differs from the tracked state and is
\* neither STARTING nor STOPPING is a transition.
IsVadTransition(old_vad_state, new_vad_state) ==
    /\ new_vad_state # old_vad_state
    /\ new_vad_state # "STARTING"
    /\ new_vad_state # "STOPPING"

\* A plausible slip: the assignment vad_state = new_vad_state is left out.
handle_vad_state_KeepsOld(old_vad_state, new_vad_state) == old_vad_state

\* _handle_vad: the value it returns (the tracked state after the result).
handle_vad_state(old_vad_state, new_vad_state) ==
    IF IsVadTransition(old_vad_state, new_vad_state)
    THEN new_vad_state
    ELSE old_vad_state

\* _handle_vad: the frames it pushes for the result.
handle_vad_frames(old_vad_state, new_vad_state, audio) ==
    IF IsVadTransition(old_vad_state, new_vad_state)
    THEN IF new_vad_state = "SPEAKING"
         THEN handle_user_interruption("UserStartedSpeakingFrame", "audio_task",
                                       audio, FALSE)
         ELSE IF new_vad_state = "QUIET"
         THEN handle_user_interruption("UserStoppedSpeakingFrame", "audio_task",
                                       audio, FALSE)
         ELSE <<>>
    ELSE <<>>

\* A plausible slip: the frame is pushed when the analyzer reports COMPLETE
\* instead of when its result changes.
handle_end_of_turn_frames_OnComplete(old_eot_state, new_eot_state, audio) ==
    IF new_eot_state = "COMPLETE"
    THEN handle_user_interruption("UserEndOfTurnFrame", "audio_task", audio, FALSE)
    ELSE <<>>

\* _handle_end_of_turn: the frames it pushes for the result.
handle_end_of_turn_frames(old_eot_state, new_eot_state, audio) ==
    IF new_eot_state # old_eot_state
    THEN handle_user_interruption("UserEndOfTurnFrame", "audio_task", audio, FALSE)
    ELSE <<>>

\* is_speech of _audio_task_handler, from the tracked VAD state.
IsSpeech == vad_state = "SPEAKING" \/ vad_state = "STARTING"

\* audio_passthrough of _audio_task_handler at the end of an iteration.
AudioPassthrough ==
    IF params.vad_enabled THEN params.vad_audio_passthrough ELSE TRUE

\* The end of an iteration of _audio_task_handler: push the audio frame if
\* pass-through is on, and go back to the queue.
PassthroughFrames(audio) ==
    IF AudioPassthrough
    THEN <<Emitted("InputAudioRawFrame", "audio_task", audio, FALSE)>>
    ELSE <<>>

\* The part of an iteration after the VAD block: either submit the frame to the
\* end-of-turn analyzer and suspend, or finish the iteration.  `pushed` are the
\* frames the iteration pushed so far and `ex` the executor as the VAD block
\* left it.
AfterVad(audio, pushed, ex) ==
    IF params.end_of_turn_analyzer
    THEN /\ audio_pc' = "eot"
         /\ audio_frame' = audio
         /\ executor' = ExecutorSubmit(ex, Call("eot", audio))
         /\ input_out' = input_out \o pushed
    ELSE /\ audio_pc' = "get"
         /\ audio_frame' = 0
         /\ executor' = ex
         /\ input_out' = input_out \o pushed \o PassthroughFrames(audio)

\* The audio task takes a frame from the queue and runs up to its first
\* run_in_executor (or through the whole iteration if there is none).
AudioTaskGet ==
    /\ audio_pc = "get"
    /\ audio_in_queue # <<>>
    /\ audio_in_queue' = Tail(audio_in_queue)
    /\ LET audio == Head(audio_in_queue) IN
       IF params.vad_enabled /\ params.vad_analyzer
       THEN /\ audio_pc' = "vad"
            /\ audio_frame' = audio
            /\ executor' = ExecutorSubmit(executor, Call("vad", audio))
            /\ UNCHANGED <<vad_state, vad_results, input_out>>
       ELSE IF params.vad_enabled
       THEN \* _vad_analyze without an analyzer returns QUIET
            /\ vad_state' = handle_vad_state(vad_state, "QUIET")
            /\ vad_results' = Append(vad_results, VadResult(audio, "QUIET"))
            /\ AfterVad(audio, handle_vad_frames(vad_state, "QUIET", audio),
                        executor)
       ELSE /\ UNCHANGED <<vad_state, vad_results>>
            /\ AfterVad(audio, <<>>, executor)
    /\ UNCHANGED <<params, audio_task, end_of_turn_state, input_pc, audio_pushed,
                   frames_in, eot_results, analyzer_raised, configured>>
    /\ UNCHANGED not_input_vars

\* The VAD analyzer's analyze_audio returns new_vad_state.
AudioTaskVadReturns ==
    /\ audio_pc = "vad"
    /\ Call("vad", audio_frame) \in executor.running
    /\ \E new_vad_state \in VADStates :
          /\ vad_state' = handle_vad_state(vad_state, new_vad_state)
          /\ vad_results' = Append(vad_results, VadResult(audio_frame, new_vad_state))
          /\ AfterVad(audio_frame,
                      handle_vad_frames(vad_state, new_vad_state, audio_frame),
                      ExecutorDone(executor, Call("vad", audio_frame)))
    /\ UNCHANGED <<params, audio_task, audio_in_queue, end_of_turn_state,
                   input_pc, audio_pushed, frames_in, eot_results,
                   analyzer_raised, configured>>
    /\ UNCHANGED not_input_vars

\* The end-of-turn analyzer's analyze_audio returns new_eot_state.
AudioTaskEndOfTurnReturns ==
    /\ audio_pc = "eot"
    /\ Call("eot", audio_frame) \in executor.running
    /\ executor' = ExecutorDone(executor, Call("eot", audio_frame))
    /\ \E new_eot_state \in EndOfTurnStates :
          /\ end_of_turn_state' = new_eot_state
          /\ eot_results' = Append(eot_results,
                                   EotResult(audio_frame, IsSpeech, new_eot_state))
          /\ input_out' = input_out
                \o handle_end_of_turn_frames(end_of_turn_state, new_eot_state,
                                             audio_frame)
                \o PassthroughFrames(audio_frame)
    /\ audio_pc' = "get"
    /\ audio_frame' = 0
    /\ UNCHANGED <<params, audio_task, audio_in_queue, vad_state, input_pc,
                   audio_pushed, frames_in, vad_results, analyzer_raised,
                   configured>>
    /\ UNCHANGED not_input_vars

\* A classifier call raises: _audio_task_handler has no handler for it, the
\* exception ends the task, and _audio_task keeps naming the ended task.
AudioTaskAnalyzerRaises ==
    /\ audio_pc \in {"vad", "eot"}
    /\ Call(audio_pc, audio_frame) \in executor.running
    /\ executor' = ExecutorDone(executor, Call(audio_pc, audio_frame))
    /\ analyzer_raised' = analyzer_raised + 1
    /\ audio_pc' = "raised"
    /\ audio_frame' = 0
    /\ UNCHANGED <<params, audio_task, audio_in_queue, vad_state,
                   end_of_turn_state, input_pc, audio_pushed, frames_in,
                   vad_results, eot_results, configured, input_out>>
    /\ UNCHANGED not_input_vars

\* A worker thread finishes a call whose task was cancelled while the thread
\* was running it: nobody awaits the result.
ExecutorAbandonedCallDone ==
    /\ \E call \in executor.running :
          /\ ~(audio_pc \in {"vad", "eot"} /\ call = Call(audio_pc, audio_frame))
          /\ executor' = ExecutorDone(executor, call)
    /\ UNCHANGED <<params, audio_task, audio_pc, audio_in_queue, audio_frame,
                   vad_state, end_of_turn_state, input_pc, audio_pushed, frames_in,
                   vad_results, eot_results, analyzer_raised, configured,
                   input_out>>
    /\ UNCHANGED not_input_vars

\* BaseInputTransport.push_audio_frame, called by the concrete transport.
\* Audio frames are numbered in the order they are enqueued.
PushAudioFrame ==
    /\ audio_task = "Task"
    /\ Len(frames_in) + audio_pushed < MaxInputEvents
    /\ audio_pushed' = audio_pushed + 1
    /\ audio_in_queue' = IF AudioInputWanted
                         THEN Append(audio_in_queue, audio_pushed + 1)
                         ELSE audio_in_queue
    /\ UNCHANGED <<params, audio_task, audio_pc, audio_frame, vad_state,
                   end_of_turn_state, input_pc, frames_in, vad_results,
                   eot_results, analyzer_raised, configured, executor, input_out>>
    /\ UNCHANGED not_input_vars

\* BaseInputTransport.start: the queue and the task are created unless
\* _audio_task is already set.
InputStart ==
    IF audio_task = "None" /\ AudioInputWanted
    THEN /\ audio_task' = "Task"
         /\ audio_pc' = "get"
         /\ audio_in_queue' = <<>>
         /\ audio_frame' = 0
         /\ vad_state' = "QUIET"
         /\ end_of_turn_state' = "INCOMPLETE"
         /\ vad_results' = <<>>
         /\ eot_results' = <<>>
    ELSE UNCHANGED <<audio_task, audio_pc, audio_in_queue, audio_frame,
                     vad_state, end_of_turn_state, vad_results, eot_results>>

\* A plausible slip: cancellation is requested but not awaited.
InputCancel_SignalOnly ==
    IF audio_task # "None" /\ AudioInputWanted
    THEN /\ audio_task' = "None"
         /\ UNCHANGED <<audio_pc, audio_in_queue, audio_frame, vad_state,
                        end_of_turn_state, vad_results, eot_results, executor>>
    ELSE UNCHANGED <<audio_task, audio_pc, audio_in_queue, audio_frame,
                     vad_state, end_of_turn_state, vad_results, eot_results,
                     executor>>

\* BaseInputTransport.cancel, and the task part of BaseInputTransport.stop:
\* cancel_task returns when the audio task has ended.
InputCancel ==
    IF audio_task # "None" /\ AudioInputWanted
    THEN /\ audio_task' = "None"
         /\ audio_pc' = "dead"
         /\ audio_frame' = 0
         /\ executor' = IF audio_pc \in {"vad", "eot"}
                        THEN ExecutorCancel(executor, Call(audio_pc, audio_frame))
                        ELSE executor
         /\ UNCHANGED <<audio_in_queue, vad_state, end_of_turn_state, vad_results,
                        eot_results>>
    ELSE UNCHANGED <<audio_task, audio_pc, audio_in_queue, audio_frame,
                     vad_state, end_of_turn_state, vad_results, eot_results,
                     executor>>

InputTaskUnchanged ==
    UNCHANGED <<audio_task, audio_pc, audio_in_queue, audio_frame, vad_state,
                end_of_turn_state, vad_results, eot_results, executor>>

\* The configuration part of BaseInputTransport.start: set_sample_rate on the
\* VAD analyzer, set_sample_rate and set_chunk_size_ms on the end-of-turn
\* analyzer.
InputConfigure ==
    [vad_analyzer |->
        configured.vad_analyzer
          + (IF params.vad_enabled /\ params.vad_analyzer THEN 1 ELSE 0),
     end_of_turn_analyzer |->
        configured.end_of_turn_analyzer
          + (IF params.end_of_turn_analyzer THEN 1 ELSE 0)]

ForwardedFrame(kind) == Emitted(kind, "process_frame", 0, FALSE)

\* BaseInputTransport.process_frame(frame, direction), up to its return or, for
\* an EndFrame, up to the suspension inside the push that precedes stop().
BaseInputTransport_process_frame(kind) ==
    /\ input_pc = "idle"
    /\ frames_in' = Append(frames_in, kind)
    /\ UNCHANGED <<params, audio_pushed, analyzer_raised>>
    /\ CASE kind = "StartFrame" ->
              /\ input_out' = Append(input_out, ForwardedFrame(kind))
              /\ configured' = InputConfigure
              /\ InputStart
              /\ executor' = executor
              /\ UNCHANGED input_pc
         [] kind = "CancelFrame" ->
              /\ UNCHANGED configured
              /\ InputCancel
              /\ input_out' = Append(input_out, ForwardedFrame(kind))
              /\ UNCHANGED input_pc
         [] kind = "BotInterruptionFrame" ->
              /\ UNCHANGED configured
              /\ input_out' = input_out \o handle_bot_interruption
              /\ InputTaskUnchanged
              /\ UNCHANGED input_pc
         [] kind = "EmulateUserStartedSpeakingFrame" ->
              /\ UNCHANGED configured
              /\ input_out' = input_out
                     \o handle_user_interruption("UserStartedSpeakingFrame",
                                                 "process_frame", 0, TRUE)
              /\ InputTaskUnchanged
              /\ UNCHANGED input_pc
         [] kind = "EmulateUserStoppedSpeakingFrame" ->
              /\ UNCHANGED configured
              /\ input_out' = input_out
                     \o handle_user_interruption("UserStoppedSpeakingFrame",
                                                 "process_frame", 0, TRUE)
              /\ InputTaskUnchanged
              /\ UNCHANGED input_pc
         [] kind = "EndFrame" ->
              /\ UNCHANGED configured
              /\ input_out' = Append(input_out, ForwardedFrame(kind))
              /\ input_pc' = "stop"
              /\ InputTaskUnchanged
         [] OTHER ->
              /\ UNCHANGED configured
              /\ input_out' = Append(input_out, ForwardedFrame(kind))
              /\ InputTaskUnchanged
              /\ UNCHANGED input_pc

\* The stop() that process_frame runs after it pushed the EndFrame.
InputStopAfterEndFrame ==
    /\ input_pc = "stop"
    /\ input_pc' = "idle"
    /\ InputCancel
    /\ UNCHANGED <<params, audio_pushed, frames_in, analyzer_raised, configured,
                   input_out>>
    /\ UNCHANGED not_input_vars

InputFrameArrives ==
    \E kind \in InputFrameKinds :
        /\ Len(frames_in) + audio_pushed < MaxInputEvents
        /\ BaseInputTransport_process_frame(kind)
        /\ UNCHANGED not_input_vars

\* TransportParams of the transport, and interruptions_allowed of the
\* processor: fixed for the run.
\* Parameters that are never read are left FALSE: vad_analyzer and
\* vad_audio_passthrough when vad_enabled is off, audio_in_enabled when it is on.
InputParams ==
    {p \in [vad_enabled : BOOLEAN, vad_analyzer : BOOLEAN,
            end_of_turn_analyzer : BOOLEAN, audio_in_enabled : BOOLEAN,
            vad_audio_passthrough : BOOLEAN, interruptions_allowed : BOOLEAN] :
        /\ ~p.vad_enabled => ~p.vad_analyzer /\ ~p.vad_audio_passthrough
        /\ p.vad_enabled => ~p.audio_in_enabled}

\* A plausible slip: the audio task is created by the constructor instead of
\* by start().
InputConstructed_TaskRunning ==
    /\ audio_task = "Task"
    /\ audio_pc = "get"
    /\ audio_in_queue = <<>>
    /\ audio_frame = 0
    /\ vad_state = "QUIET"
    /\ end_of_turn_state = "INCOMPLETE"
    /\ input_pc = "idle"
    /\ audio_pushed = 0
    /\ frames_in = <<>>
    /\ vad_results = <<>>
    /\ eot_results = <<>>
    /\ analyzer_raised = 0
    /\ configured = [vad_analyzer |-> 0, end_of_turn_analyzer |-> 0]
    /\ executor = ExecutorIdle
    /\ input_out = <<>>

InputConstructed ==
    /\ audio_task = "None"
    /\ audio_pc = "dead"
    /\ audio_in_queue = <<>>
    /\ audio_frame = 0
    /\ vad_state = "QUIET"
    /\ end_of_turn_state = "INCOMPLETE"
    /\ input_pc = "idle"
    /\ audio_pushed = 0
    /\ frames_in = <<>>
    /\ vad_results = <<>>
    /\ eot_results = <<>>
    /\ analyzer_raised = 0
    /\ configured = [vad_analyzer |-> 0, end_of_turn_analyzer |-> 0]
    /\ executor = ExecutorIdle
    /\ input_out = <<>>

InputInit ==
    /\ params \in InputParams
    /\ InputConstructed

InputNext ==
    \/ InputFrameArrives
    \/ InputStopAfterEndFrame
    \/ PushAudioFrame
    \/ AudioTaskGet
    \/ AudioTaskVadReturns
    \/ AudioTaskEndOfTurnReturns
    \/ AudioTaskAnalyzerRaises
    \/ ExecutorAbandonedCallDone

\* ------------------------------------------------ AWSTranscribeSTTService

\* The coroutines of the service that call _connect or _disconnect: start(),
\* run_stt() and stop() (cancel() has the same body as stop()).
STTCallers == {"start", "run_stt", "stop"}

\* websockets State of a connection the service opened.
SocketStates == {"OPEN", "CLOSING", "CLOSED"}

\* max_retries of start().
max_retries == 3

\* The position of a coroutine: the await it is suspended at, the call of
\* _disconnect or the yield it is in, and the socket or task it awaits.
Position(at, ctx, sock) == [at |-> at, ctx |-> ctx, sock |-> sock]

NotRunning == Position("idle", "", 0)

Goto(s, c, at, ctx, sock) == [s EXCEPT !.pc[c] = Position(at, ctx, sock)]

\* self._ws_client and self._ws_client.state is State.OPEN
WsOpen(s) == s.ws_client # 0 /\ s.sockets[s.ws_client] = "OPEN"

\* not self._ws_client or self._ws_client.state is State.CLOSED
WsMissingOrClosed(s) == s.ws_client = 0 \/ s.sockets[s.ws_client] = "CLOSED"

\* ErrorFrame(..., fatal=False) yielded by run_stt for the chunk it has.
STTErrorFrame(s, error) ==
    [kind |-> "ErrorFrame", fatal |-> FALSE, chunk |-> s.chunk, error |-> error]

\* stop() or run_stt() comes to its end.
CallerDone(s, c) ==
    IF c = "run_stt"
    THEN [s EXCEPT !.pc[c] = NotRunning, !.finished = @ \cup {s.chunk}]
    ELSE [s EXCEPT !.pc[c] = NotRunning]

\* run_stt yields an ErrorFrame: the frame is handed to the caller of the
\* generator, and run_stt goes on (after: "disconnect" or "return") when the
\* caller asks for the next frame.
RunSttYield(s, error, after) ==
    Goto([s EXCEPT !.yielded = Append(@, STTErrorFrame(s, error))],
         "run_stt", "yield", after, 0)

\* start(): return after "Successfully established WebSocket connection".
\* start_result keeps the state the websocket was in at that moment.
StartReturns(s) ==
    [s EXCEPT !.pc["start"] = NotRunning,
              !.start_result = IF s.ws_client = 0 THEN "returned None"
                               ELSE "returned " \o s.sockets[s.ws_client]]

\* start(): the while loop goes round without reaching an await.
StartSpins(s) ==
    [s EXCEPT !.pc["start"] = Position("spin", "", 0), !.start_result = "spins"]

\* start(): except Exception of the while loop.
StartConnectRaised(s) ==
    IF s.retry_count + 1 < max_retries
    THEN Goto([s EXCEPT !.retry_count = @ + 1], "start", "sleep", "", 0)
    ELSE [s EXCEPT !.retry_count = @ + 1,
                   !.pc["start"] = NotRunning,
                   !.start_result = "RuntimeError"]

\* _connect, from the language check to the await of websocket_connect.
ConnectOpen(s, c) == Goto(s, c, "websocket_connect", "", 0)

\* _connect: the finally clause and the end of the async with block.
ConnectFinally(s) == [s EXCEPT !.connecting = FALSE, !.connection_lock = "free"]

\* _disconnect returns to the code that called it: _connect before it opens
\* the websocket ("old"), the except clause of _connect ("failed"), or stop()
\* and the except clauses of run_stt ("top").
DisconnectReturns(s, c, ctx) ==
    IF ctx = "old" THEN ConnectOpen(s, c)
    ELSE IF ctx = "failed"
    THEN (IF c = "start"
          THEN StartConnectRaised(ConnectFinally(s))
          ELSE RunSttYield([ConnectFinally(s) EXCEPT
                               !.failures = @ \cup {<<s.chunk, "reconnect">>}],
                           "Failed to reconnect to AWS Transcribe", "return"))
    ELSE CallerDone(s, c)

\* _disconnect: finally: self._ws_client = None
DisconnectFinally(s, c, ctx) ==
    DisconnectReturns([s EXCEPT !.ws_client = 0], c, ctx)

\* _disconnect: await self._ws_client.close().  With no client the attribute
\* access raises and the except clause takes it; close() of a closed
\* connection returns without suspending.
DisconnectClose(s, c, ctx) ==
    IF s.ws_client = 0 THEN DisconnectFinally(s, c, ctx)
    ELSE IF s.sockets[s.ws_client] = "CLOSED" THEN DisconnectFinally(s, c, ctx)
    ELSE Goto(s, c, "close", ctx, s.ws_client)

\* _disconnect: the try block, up to the first await that suspends.
DisconnectTry(s, c, ctx) ==
    IF WsOpen(s)
    THEN Goto(s, c, "send_end", ctx, s.ws_client)
    ELSE DisconnectClose(s, c, ctx)

\* _disconnect: the receive task is cancelled and awaited; a task that has
\* ended already is awaited without suspending.
Disconnect(s, c, ctx) ==
    IF s.receive_task # 0
    THEN IF s.receive_task \in s.loops
         THEN Goto([s EXCEPT !.loops = @ \ {s.receive_task}],
                   c, "cancel_task", ctx, s.receive_task)
         ELSE DisconnectTry([s EXCEPT !.receive_task = 0], c, ctx)
    ELSE DisconnectTry(s, c, ctx)

\* run_stt: build the event message and await self._ws_client.send(...).
\* With no client the attribute access raises and except Exception takes it.
RunSttSend(s) ==
    IF s.ws_client = 0
    THEN RunSttYield([s EXCEPT !.failures = @ \cup {<<s.chunk, "send">>}],
                     "AWS Transcribe error", "disconnect")
    ELSE Goto(s, "run_stt", "send", "", s.ws_client)

\* _connect returns without having awaited anything.
ConnectReturnsEarly(s, c) ==
    IF c = "start"
    THEN (IF WsOpen(s) THEN StartReturns(s) ELSE StartSpins(s))
    ELSE RunSttSend(s)

\* _connect inside the async with block, up to its first await.
ConnectLocked(s, c) ==
    IF s.connecting
    THEN ConnectReturnsEarly([s EXCEPT !.connection_lock = "free"], c)
    ELSE IF s.ws_client # 0
    THEN Disconnect([s EXCEPT !.connecting = TRUE], c, "old")
    ELSE ConnectOpen([s EXCEPT !.connecting = TRUE], c)

\* A plausible slip: the connect sequence is entered without taking the lock
\* and without testing the connecting flag.
ConnectEnter_NoLock(s, c) ==
    IF WsOpen(s) /\ s.receive_task # 0
    THEN ConnectReturnsEarly(s, c)
    ELSE IF s.ws_client # 0
    THEN Disconnect([s EXCEPT !.connecting = TRUE], c, "old")
    ELSE ConnectOpen([s EXCEPT !.connecting = TRUE], c)

\* _connect, from its first line to its first await.
ConnectEnter(s, c) ==
    IF WsOpen(s) /\ s.receive_task # 0
    THEN ConnectReturnsEarly(s, c)
    ELSE IF s.connection_lock # "free"
    THEN Goto(s, c, "lock", "", 0)
    ELSE ConnectLocked([s EXCEPT !.connection_lock = c], c)

\* start(): one pass of the while loop, up to its first await.
StartLoop(s) == ConnectEnter([s EXCEPT !.attempts = @ + 1], "start")

\* _connect has returned to start() or run_stt().
ConnectReturned(s, c) ==
    IF c = "start"
    THEN (IF WsOpen(s) THEN StartReturns(s) ELSE StartLoop(s))
    ELSE RunSttSend(s)

\* ---- steps of the service

\* A StartFrame reaches the service: start().
STTStart ==
    /\ stt.calls < MaxSTTCalls
    /\ stt.pc["start"] = NotRunning
    /\ stt' = StartLoop([stt EXCEPT !.calls = @ + 1,
                                    !.retry_count = 0,
                                    !.attempts = 0,
                                    !.start_result = "running"])
    /\ UNCHANGED not_stt_vars

\* An audio chunk reaches the service: run_stt(audio).
STTRunStt ==
    /\ stt.calls < MaxSTTCalls
    /\ stt.pc["run_stt"] = NotRunning
    /\ LET s == [stt EXCEPT !.calls = @ + 1, !.chunk = @ + 1]
       IN stt' = IF WsMissingOrClosed(s)
                 THEN ConnectEnter(s, "run_stt")
                 ELSE RunSttSend(s)
    /\ UNCHANGED not_stt_vars

\* An EndFrame or a CancelFrame reaches the service: stop() or cancel().
STTStop ==
    /\ stt.calls < MaxSTTCalls
    /\ stt.pc["stop"] = NotRunning
    /\ stt' = Disconnect([stt EXCEPT !.calls = @ + 1], "stop", "top")
    /\ UNCHANGED not_stt_vars

\* async with self._connection_lock: a waiting coroutine gets the lock.
STTLockAcquired ==
    \E c \in STTCallers :
        /\ stt.pc[c].at = "lock"
        /\ stt.connection_lock = "free"
        /\ stt' = ConnectLocked([stt EXCEPT !.connection_lock = c], c)
        /\ UNCHANGED not_stt_vars

\* await self.cancel_task(self._receive_task) returns.
STTCancelTaskReturns ==
    \E c \in STTCallers :
        /\ stt.pc[c].at = "cancel_task"
        /\ stt' = DisconnectTry([stt EXCEPT !.receive_task = 0], c, stt.pc[c].ctx)
        /\ UNCHANGED not_stt_vars

\* await self._ws_client.send(end_stream) returns, or raises because the
\* connection is no longer open.
STTSendEndReturns ==
    \E c \in STTCallers :
        /\ stt.pc[c].at = "send_end"
        /\ stt' = IF stt.sockets[stt.pc[c].sock] = "OPEN"
                  THEN DisconnectClose(stt, c, stt.pc[c].ctx)
                  ELSE DisconnectFinally(stt, c, stt.pc[c].ctx)
        /\ UNCHANGED not_stt_vars

\* await self._ws_client.close() returns: that connection is closed.
STTCloseReturns ==
    \E c \in STTCallers :
        /\ stt.pc[c].at = "close"
        /\ stt' = DisconnectFinally(
                      [stt EXCEPT !.sockets[stt.pc[c].sock] = "CLOSED"],
                      c, stt.pc[c].ctx)
        /\ UNCHANGED not_stt_vars

\* await websocket_connect(...) returns a connection or raises.  The peer can
\* have closed the connection before the coroutine runs again, so the state
\* of the connection _connect returns with is any of the three.  A receive
\* task is created for the connection in the same step.
STTWebsocketConnectReturns ==
    \E c \in STTCallers, outcome \in SocketStates \cup {"raise"} :
        /\ stt.pc[c].at = "websocket_connect"
        /\ IF outcome = "raise"
           THEN stt' = Disconnect(stt, c, "failed")
           ELSE /\ Len(stt.sockets) < MaxSockets
                /\ LET n == Len(stt.sockets) + 1
                   IN stt' = ConnectReturned(
                                 ConnectFinally(
                                     [stt EXCEPT !.sockets = Append(@, outcome),
                                                 !.ws_client = n,
                                                 !.receive_task = n,
                                                 !.loops = @ \cup {n}]),
                                 c)
        /\ UNCHANGED not_stt_vars

\* await asyncio.sleep(1) of start() returns.
STTSleepReturns ==
    /\ stt.pc["start"].at = "sleep"
    /\ stt' = StartLoop(stt)
    /\ UNCHANGED not_stt_vars

\* await self._ws_client.send(event_message) of run_stt returns or raises:
\* ConnectionClosed when the connection is not open, any other exception at
\* any time.
STTSendReturns ==
    \E outcome \in {"sent", "ConnectionClosed", "Exception"} :
        /\ stt.pc["run_stt"].at = "send"
        /\ LET open == stt.sockets[stt.pc["run_stt"].sock] = "OPEN"
               failed == [stt EXCEPT !.failures = @ \cup {<<stt.chunk, "send">>}]
           IN \/ /\ outcome = "sent"
                 /\ open
                 /\ stt' = CallerDone([stt EXCEPT !.sent = @ \cup {stt.chunk}],
                                      "run_stt")
              \/ /\ outcome = "ConnectionClosed"
                 /\ ~open
                 /\ stt' = Disconnect(failed, "run_stt", "top")
              \/ /\ outcome = "Exception"
                 /\ stt' = RunSttYield(failed, "AWS Transcribe error",
                                       "disconnect")
        /\ UNCHANGED not_stt_vars

\* The caller of the generator asks run_stt for its next frame.
STTYieldResumes ==
    /\ stt.pc["run_stt"].at = "yield"
    /\ stt' = IF stt.pc["run_stt"].ctx = "disconnect"
              THEN Disconnect(stt, "run_stt", "top")
              ELSE CallerDone(stt, "run_stt")
    /\ UNCHANGED not_stt_vars

\* The peer closes a connection, at once or through the closing handshake.
STTPeerCloses ==
    \E i \in 1..Len(stt.sockets), to \in {"CLOSING", "CLOSED"} :
        /\ \/ stt.sockets[i] = "OPEN"
           \/ stt.sockets[i] = "CLOSING" /\ to = "CLOSED"
        /\ stt' = [stt EXCEPT !.sockets[i] = to]
        /\ UNCHANGED not_stt_vars

\* _receive_loop breaks out of its loop: it finds no client or a closed one,
\* recv raises ConnectionClosed, or a message raises any other exception.
STTReceiveLoopExits ==
    \E t \in stt.loops :
        /\ stt' = [stt EXCEPT !.loops = @ \ {t}]
        /\ UNCHANGED not_stt_vars

\* AWSTranscribeSTTService.__init__
STTConstructed ==
    stt = [ws_client |-> 0,
           sockets |-> <<>>,
           receive_task |-> 0,
           loops |-> {},
           connecting |-> FALSE,
           connection_lock |-> "free",
           pc |-> [c \in STTCallers |-> NotRunning],
           retry_count |-> 0,
           attempts |-> 0,
           start_result |-> "none",
           chunk |-> 0,
           yielded |-> <<>>,
           sent |-> {},
           failures |-> {},
           finished |-> {},
           calls |-> 0]

STTNext ==
    \/ STTStart
    \/ STTRunStt
    \/ STTStop
    \/ STTLockAcquired
    \/ STTCancelTaskReturns
    \/ STTSendEndReturns
    \/ STTCloseReturns
    \/ STTWebsocketConnectReturns
    \/ STTSleepReturns
    \/ STTSendReturns
    \/ STTYieldResumes
    \/ STTPeerCloses
    \/ STTReceiveLoopExits

\* ------------------------------------------- end-of-turn analyzer adapters

\* Values of the REMOTE_SMART_TURN_URL environment variable as os.getenv
\* returns it: None when it is unset, the empty string, or a URL.
EnvValues == {"None", "", "https://turn.example"}

\* Values given as smart_turn_model_path.
ModelPaths == {"None", "", "models/smart-turn"}

\* Python's `not value` for None and for strings.
IsFalsy_OnlyNone(value) == value = "None"

IsFalsy(value) == value \in {"None", ""}

\* The outcome of one construction: the class, the configuration it was
\* given, whether __init__ raised, the number of model files it loaded, and
\* the object the caller got ("None" when __init__ raised).
Construction(class, config, raised, loads, object) ==
    [class |-> class, config |-> config, raised |-> raised, loads |-> loads,
     object |-> object]

\* RemoteSmartTurnAnalyzer.__init__
RemoteSmartTurnAnalyzer_init(url) ==
    IF IsFalsy(url)
    THEN Construction("RemoteSmartTurnAnalyzer", url, TRUE, 0, "None")
    ELSE Construction("RemoteSmartTurnAnalyzer", url, FALSE, 0,
                      [remote_smart_turn_url |-> url])

\* LocalCoreMLSmartTurnAnalyzer.__init__: `loads` says whether the feature
\* extractor and the CoreML model can be loaded from the path.
LocalCoreMLSmartTurnAnalyzer_init(smart_turn_model_path, loads) ==
    IF IsFalsy(smart_turn_model_path)
    THEN Construction("LocalCoreMLSmartTurnAnalyzer", smart_turn_model_path,
                      TRUE, 0, "None")
    ELSE IF loads
    THEN Construction("LocalCoreMLSmartTurnAnalyzer", smart_turn_model_path,
                      FALSE, 2,
                      [turn_processor |-> smart_turn_model_path,
                       turn_model |-> smart_turn_model_path \o
                           "/coreml/smart_turn_classifier.mlpackage"])
    ELSE Construction("LocalCoreMLSmartTurnAnalyzer", smart_turn_model_path,
                      TRUE, 1, "None")

\* The environment variable is set or unset.
TurnSetEnv ==
    \E value \in EnvValues :
        /\ environ' = value
        /\ UNCHANGED analyzers
        /\ UNCHANGED not_turn_vars

\* RemoteSmartTurnAnalyzer() is called.
TurnConstructRemote ==
    /\ Len(analyzers) < MaxAnalyzers
    /\ analyzers' = Append(analyzers, RemoteSmartTurnAnalyzer_init(environ))
    /\ UNCHANGED environ
    /\ UNCHANGED not_turn_vars

\* LocalCoreMLSmartTurnAnalyzer(smart_turn_model_path=...) is called.
TurnConstructLocal ==
    \E path \in ModelPaths, loads \in BOOLEAN :
        /\ Len(analyzers) < MaxAnalyzers
        /\ analyzers' = Append(analyzers,
                               LocalCoreMLSmartTurnAnalyzer_init(path, loads))
        /\ UNCHANGED environ
        /\ UNCHANGED not_turn_vars

\* A process that has constructed no analyzer, with the variable unset.
TurnNotUsed ==
    /\ environ = "None"
    /\ analyzers = <<>>

TurnInit ==
    /\ environ \in EnvValues
    /\ analyzers = <<>>

TurnNext ==
    \/ TurnSetEnv
    \/ TurnConstructRemote
    \/ TurnConstructLocal

\* ------------------------------------------------------------ PipelineTask

\* Classes of the frames submitted through queue_frame and queue_frames.
TaskFrameKinds == {"TextFrame", "EndFrame"}

\* The frame lists given to queue_frames: one or two frames.
TaskFrameLists ==
    {<<k>> : k \in TaskFrameKinds}
    \cup {<<k1, k2>> : k1 \in TaskFrameKinds, k2 \in TaskFrameKinds}

\* A submitted frame: `id` is its rank among all submitted frames and `call`
\* the rank of the queue_frame or queue_frames call that submitted it.
TaskFrame(id, call, kind) == [id |-> id, call |-> call, kind |-> kind]

\* A frame the task itself injects.
TaskControlFrame(kind) == TaskFrame(0, 0, kind)

\* A plausible slip: the new frames go to the head of the queue.
queue_frames_AtHead(task, frames) ==
    [task EXCEPT
        !.queue = [i \in 1..Len(frames) |->
                      TaskFrame(task.submitted + i, task.calls + 1, frames[i])]
                  \o @,
        !.submitted = @ + Len(frames),
        !.calls = @ + 1]

\* PipelineTask.queue_frames(frames); queue_frame(frame) is the call with a
\* list of one frame.
queue_frames(task, frames) ==
    [task EXCEPT
        !.queue = @ \o [i \in 1..Len(frames) |->
                           TaskFrame(task.submitted + i, task.calls + 1,
                                     frames[i])],
        !.submitted = @ + Len(frames),
        !.calls = @ + 1]

\* A plausible slip: the CancelFrame waits its turn in the submission queue.
cancel_InQueueOrder(task) ==
    [task EXCEPT !.queue = Append(@, TaskControlFrame("CancelFrame")),
                 !.cancel_called = TRUE,
                 !.pending_at_cancel = {task.queue[i].id : i \in 1..Len(task.queue)}]

\* PipelineTask.cancel(): the CancelFrame is injected ahead of the queue.
\* pending_at_cancel keeps the frames that were pending at the call.
cancel(task) ==
    [task EXCEPT !.injected = Append(@, TaskControlFrame("CancelFrame")),
                 !.cancel_called = TRUE,
                 !.pending_at_cancel = {task.queue[i].id : i \in 1..Len(task.queue)}]

\* The task has delivered a terminal frame.
TaskTerminated(task) ==
    \E i \in 1..Len(task.delivered) :
        task.delivered[i].kind \in {"EndFrame", "CancelFrame"}

\* queue_frame or queue_frames is called.
TaskQueueFrames ==
    \E frames \in TaskFrameLists :
        /\ pipeline_task.submitted + Len(frames) <= MaxSubmitted
        /\ pipeline_task' = queue_frames(pipeline_task, frames)
        /\ UNCHANGED not_task_vars

\* run() begins: the StartFrame is pushed first.
TaskRun ==
    /\ ~pipeline_task.running
    /\ pipeline_task.delivered = <<>>
    /\ pipeline_task' = [pipeline_task EXCEPT
                            !.running = TRUE,
                            !.delivered = <<TaskControlFrame("StartFrame")>>]
    /\ UNCHANGED not_task_vars

\* cancel() is called on a running task.
TaskCancel ==
    /\ pipeline_task.running
    /\ ~pipeline_task.cancel_called
    /\ pipeline_task' = cancel(pipeline_task)
    /\ UNCHANGED not_task_vars

\* run() delivers the next frame to the pipeline: an injected frame if there
\* is one, otherwise the head of the submission queue.
TaskDeliver ==
    /\ pipeline_task.running
    /\ ~TaskTerminated(pipeline_task)
    /\ IF pipeline_task.injected # <<>>
       THEN pipeline_task' = [pipeline_task EXCEPT
                                 !.delivered = Append(@, Head(pipeline_task.injected)),
                                 !.injected = Tail(@)]
       ELSE /\ pipeline_task.queue # <<>>
            /\ pipeline_task' = [pipeline_task EXCEPT
                                    !.delivered = Append(@, Head(pipeline_task.queue)),
                                    !.queue = Tail(@)]
    /\ UNCHANGED not_task_vars

\* PipelineTask(pipeline): nothing submitted, run() not called yet.
TaskInit ==
    pipeline_task = [queue |-> <<>>,
                     injected |-> <<>>,
                     delivered |-> <<>>,
                     running |-> FALSE,
                     cancel_called |-> FALSE,
                     pending_at_cancel |-> {},
                     submitted |-> 0,
                     calls |-> 0]

TaskNext ==
    \/ TaskQueueFrames
    \/ TaskRun
    \/ TaskCancel
    \/ TaskDeliver

\* ---------------------------------------------------- Notifier with waiters

\* The coroutines that wait on one Notifier.
Waiters == 1..MaxWaiters

\* A waiter: "idle" outside wait(), "blocked" inside it, "woken" once a
\* notify has released it and it has not run yet.  `since` is the number of
\* notify calls made before it blocked.
Waiter(state, since) == [state |-> state, since |-> since]

\* The blocked waiters.
Blocked(n) == {w \in Waiters : n.waiters[w].state = "blocked"}

\* A plausible slip: notify marks the Notifier signalled and wakes nobody.
notify_WakesNobody(n) ==
    [n EXCEPT !.signaled = TRUE,
              !.notifies = @ + 1,
              !.released_by_last = 0]

\* Notifier.notify(): the Notifier is marked signalled and every waiter that
\* is blocked now is released.
notify(n) ==
    [n EXCEPT !.signaled = TRUE,
              !.waiters = [w \in Waiters |->
                              IF w \in Blocked(n) THEN Waiter("woken", 0) ELSE @[w]],
              !.notifies = @ + 1,
              !.released_by_last = Cardinality(Blocked(n))]

\* Notifier.wait() is called by waiter w: with the Notifier signalled it
\* returns at once and takes the signal, otherwise the waiter blocks until
\* the next notify.
wait(n, w) ==
    IF n.signaled
    THEN [n EXCEPT !.signaled = FALSE]
    ELSE [n EXCEPT !.waiters[w] = Waiter("blocked", n.notifies)]

\* A released waiter runs again: it takes the signal and wait() returns.
wait_returns(n, w) ==
    [n EXCEPT !.signaled = FALSE, !.waiters[w] = Waiter("idle", 0)]

NotifierNotifyCalled ==
    /\ notifier.notifies < MaxNotifies
    /\ notifier' = notify(notifier)
    /\ UNCHANGED not_notifier_vars

NotifierWaitCalled ==
    \E w \in Waiters :
        /\ notifier.waiters[w].state = "idle"
        /\ notifier' = wait(notifier, w)
        /\ UNCHANGED not_notifier_vars

NotifierWaiterResumes ==
    \E w \in Waiters :
        /\ notifier.waiters[w].state = "woken"
        /\ notifier' = wait_returns(notifier, w)
        /\ UNCHANGED not_notifier_vars

\* A Notifier as created: idle, nobody waiting.
NotifierInit ==
    notifier = [signaled |-> FALSE,
                waiters |-> [w \in Waiters |-> Waiter("idle", 0)],
                notifies |-> 0,
                released_by_last |-> 0]

NotifierNext ==
    \/ NotifierNotifyCalled
    \/ NotifierWaitCalled
    \/ NotifierWaiterResumes

\* -------------------------------------------------------- ParallelPipeline

\* The two branches of the ParallelPipeline: A, whose leading filter drops
\* every frame, and B, which forwards every frame.
Branches == {"A", "B"}

\* Classes of the frames given to the ParallelPipeline: a data frame and a
\* System frame.
ParallelFrameKinds == {"TextFrame", "StartInterruptionFrame"}

ParallelFrame(id, kind) == [id |-> id, kind |-> kind]

NoFrame == ParallelFrame(0, "None")

\* The leading filter of branch b lets the frame into the branch.  System
\* frames bypass the filter.
BranchSees(b, frame) == IsSystemFrame(frame) \/ b = "B"

\* The frames the processors of branch b push for a frame they handle.
BranchProcess(b, frame) == IF b = "B" THEN <<frame>> ELSE <<>>

\* The output of a linear pipeline made of the processors of branch b.
RECURSIVE LinearPipeline(_, _)
LinearPipeline(b, input) ==
    IF input = <<>>
    THEN <<>>
    ELSE BranchProcess(b, Head(input)) \o LinearPipeline(b, Tail(input))

\* A plausible slip: the System frame is delivered on its first
\* acknowledgement.
SystemFrameAcknowledged_ByAnyBranch(p) == p.acks # {}

\* Every branch has drained the frames ahead of the System frame and has
\* acknowledged it.
SystemFrameAcknowledged(p) == p.acks = Branches

\* ParallelPipeline.process_frame(frame): a System frame is broadcast to all
\* branches, any other frame goes to the branches whose filter lets it in.
\* The frame after a System frame is taken once that frame is delivered.
ParallelProcessFrame ==
    \E kind \in ParallelFrameKinds :
        LET frame == ParallelFrame(Len(parallel_pipeline.accepted) + 1, kind)
        IN /\ Len(parallel_pipeline.accepted) < MaxParallelFrames
           /\ parallel_pipeline.system = NoFrame
           /\ parallel_pipeline' =
                  [parallel_pipeline EXCEPT
                      !.accepted = Append(@, frame),
                      !.queues = [b \in Branches |->
                                     IF BranchSees(b, frame)
                                     THEN Append(@[b], frame)
                                     ELSE @[b]],
                      !.system = IF IsSystemFrame(frame) THEN frame ELSE @]
           /\ UNCHANGED not_parallel_vars

\* A branch handles the next frame of its queue: it acknowledges a System
\* frame, and what its processors push for any other frame is appended to
\* the output of the ParallelPipeline as it arrives.
ParallelBranchStep ==
    \E b \in Branches :
        /\ parallel_pipeline.queues[b] # <<>>
        /\ LET frame == Head(parallel_pipeline.queues[b])
           IN parallel_pipeline' =
                  [parallel_pipeline EXCEPT
                      !.queues[b] = Tail(@),
                      !.acks = IF IsSystemFrame(frame) THEN @ \cup {b} ELSE @,
                      !.out = IF IsSystemFrame(frame)
                              THEN @
                              ELSE @ \o BranchProcess(b, frame)]
        /\ UNCHANGED not_parallel_vars

\* The System frame every branch has acknowledged is delivered downstream.
ParallelDeliverSystemFrame ==
    /\ parallel_pipeline.system # NoFrame
    /\ SystemFrameAcknowledged(parallel_pipeline)
    /\ parallel_pipeline' =
           [parallel_pipeline EXCEPT
               !.out = Append(@, parallel_pipeline.system),
               !.system = NoFrame,
               !.acks = {}]
    /\ UNCHANGED not_parallel_vars

\* ParallelPipeline([A], [B]) before its first frame.
ParallelInit ==
    parallel_pipeline = [accepted |-> <<>>,
                         queues |-> [b \in Branches |-> <<>>],
                         acks |-> {},
                         system |-> NoFrame,
                         out |-> <<>>]

ParallelNext ==
    \/ ParallelProcessFrame
    \/ ParallelBranchStep
    \/ ParallelDeliverSystemFrame

\* ----------------------------------------------------------- specifications

\* The transport as constructed with every parameter off: the state it is in
\* throughout a run of the gate alone.
InputNotUsed ==
    /\ params = [vad_enabled |-> FALSE, vad_analyzer |-> FALSE,
                 end_of_turn_analyzer |-> FALSE, audio_in_enabled |-> FALSE,
                 vad_audio_passthrough |-> FALSE, interruptions_allowed |-> FALSE]
    /\ InputConstructed

\* A gate constructed closed: the state it is in throughout a run of the
\* transport alone.
GateNotUsed ==
    /\ GateInit
    /\ gate_open = FALSE

\* The components without a background task of their own, as constructed.
OthersNotUsed == TurnNotUsed /\ TaskInit /\ NotifierInit /\ ParallelInit

\* OutputGate with its Notifier and the frames delivered to it.
SpecGateInit == GateInit /\ InputNotUsed /\ STTConstructed /\ OthersNotUsed

SpecGate == SpecGateInit /\ [][GateNext]_vars

\* BaseInputTransport with its audio task and the frames delivered to it.
SpecInputInit == InputInit /\ GateNotUsed /\ STTConstructed /\ OthersNotUsed

SpecInput == SpecInputInit /\ [][InputNext]_vars

\* AWSTranscribeSTTService with its websockets, its receive loops and the
\* frames delivered to it.
SpecSTTInit == STTConstructed /\ GateNotUsed /\ InputNotUsed /\ OthersNotUsed

SpecSTT == SpecSTTInit /\ [][STTNext]_vars

\* The constructors of the end-of-turn analyzer adapters.
SpecTurnInit ==
    /\ TurnInit
    /\ GateNotUsed /\ InputNotUsed /\ STTConstructed /\ TaskInit /\ NotifierInit
    /\ ParallelInit

SpecTurn == SpecTurnInit /\ [][TurnNext]_vars

\* PipelineTask with the frames submitted to it.
SpecTaskInit ==
    /\ TaskInit
    /\ GateNotUsed /\ InputNotUsed /\ STTConstructed /\ TurnNotUsed
    /\ NotifierInit /\ ParallelInit

SpecTask == SpecTaskInit /\ [][TaskNext]_vars

\* One Notifier with its waiters.
SpecNotifierInit ==
    /\ NotifierInit
    /\ GateNotUsed /\ InputNotUsed /\ STTConstructed /\ TurnNotUsed /\ TaskInit
    /\ ParallelInit

SpecNotifier == SpecNotifierInit /\ [][NotifierNext]_vars

\* ParallelPipeline([A], [B]) with the frames given to it.
SpecParallelInit ==
    /\ ParallelInit
    /\ GateNotUsed /\ InputNotUsed /\ STTConstructed /\ TurnNotUsed /\ TaskInit
    /\ NotifierInit

SpecParallel == SpecParallelInit /\ [][ParallelNext]_vars

\* -------------------------------------------------------------------- claims

Last(s) == s[Len(s)]

\* A step in which OutputGate.process_frame handles one frame.
GateFrameStep == Len(gate_in') = Len(gate_in) + 1

\* No element of the buffer holds the frame.
NotInBuffer(buffer, frame) == \A i \in 1..Len(buffer) : buffer[i].frame # frame

\* C1: whenever process_frame receives a SystemFrame, a
\* FunctionCallInProgressFrame or a FunctionCallResultFrame, whatever the gate
\* state and the buffer, that call pushes the frame on in its own direction and
\* does not put it in the buffer.
C1_BypassFramesPassThrough ==
    [][(/\ GateFrameStep
        /\ \/ IsSystemFrame(Last(gate_in').frame)
           \/ Last(gate_in').frame.kind \in {"FunctionCallInProgressFrame",
                                             "FunctionCallResultFrame"})
       => /\ gate_out' = Append(gate_out,
                                Pushed(Last(gate_in').frame, Last(gate_in').direction,
                                       "process_frame", Len(gate_in')))
          /\ NotInBuffer(frames_buffer', Last(gate_in').frame)]_vars

\* C1 witness: a function-call frame travelling UPSTREAM or DOWNSTREAM reached a
\* closed gate that was holding frames, and was pushed on while they stayed.
C1_Witness ==
    \E i \in 1..Len(gate_in) :
        /\ IsFunctionCallFrame(gate_in[i].frame)
        /\ ~gate_in[i].open
        /\ \E j \in 1..Len(gate_out) :
              /\ gate_out[j].frame = gate_in[i].frame
              /\ gate_out[j].seen = i
        /\ \E k \in 1..Len(frames_buffer) : frames_buffer[k].frame.id < i

\* The System frames among the frames delivered to the gate.
DeliveredSystemFrame(i) ==
    gate_in[i].frame.kind \in {"StartFrame", "CancelFrame", "StartInterruptionFrame",
                               "StopInterruptionFrame"}

\* C2: every System frame delivered to the gate is pushed on during its own
\* process_frame call (so ahead of everything the release task flushes from
\* then on, and never by the release task), exactly once, and the System frames
\* leave the gate in the order they arrived.
C2_SystemFramesAheadOfFlush ==
    /\ \A i \in 1..Len(gate_in) :
          DeliveredSystemFrame(i) =>
             \E j \in 1..Len(gate_out) :
                /\ gate_out[j] = Pushed(gate_in[i].frame, gate_in[i].direction,
                                        "process_frame", i)
                /\ \A k \in 1..Len(gate_out) :
                      /\ (k # j => gate_out[k].frame # gate_in[i].frame)
                      /\ (gate_out[k].by = "gate_task" /\ gate_out[k].seen >= i
                            => j < k)
                /\ NotInBuffer(frames_buffer, gate_in[i].frame)
    /\ \A j, k \in 1..Len(gate_out) :
          (/\ j < k
           /\ gate_out[j].frame.kind \in SystemFrameKinds
           /\ gate_out[k].frame.kind \in SystemFrameKinds)
          => gate_out[j].frame.id < gate_out[k].frame.id

\* C2 witness: a System frame reached a closed gate that held a data frame,
\* went out at once, and the held data frame was flushed after it.
C2_Witness ==
    \E i \in 1..Len(gate_in), j, k \in 1..Len(gate_out) :
        /\ gate_in[i].frame.kind = "StopInterruptionFrame"
        /\ ~gate_in[i].open
        /\ gate_out[j].frame = gate_in[i].frame
        /\ gate_out[k].by = "gate_task"
        /\ gate_out[k].frame.id < i
        /\ j < k
        /\ \E h \in 1..(j - 1) : gate_out[h].frame.kind = "StartFrame"

\* A frame the closed gate holds back: not a SystemFrame, not a function-call
\* frame, travelling DOWNSTREAM.
Held(frame, direction) ==
    /\ ~IsSystemFrame(frame)
    /\ ~IsFunctionCallFrame(frame)
    /\ direction = "DOWNSTREAM"

\* C3: while the gate is Closed, process_frame appends such a frame to the end
\* of the buffer and pushes nothing; a frame that was held appears downstream
\* only as a push of the release task, and the release task pushes only on a
\* Notifier wake or while continuing the flush that wake began.
C3_ClosedGateHolds ==
    /\ [](\A j \in 1..Len(gate_out) :
             LET arrival == gate_in[gate_out[j].frame.id] IN
             (~arrival.open /\ Held(arrival.frame, arrival.direction))
                => gate_out[j].by = "gate_task")
    /\ [][/\ (/\ GateFrameStep
              /\ ~gate_open
              /\ Held(Last(gate_in').frame, Last(gate_in').direction))
             => /\ frames_buffer' = Append(frames_buffer,
                                           Pair(Last(gate_in').frame,
                                                Last(gate_in').direction))
                /\ gate_out' = gate_out
          /\ (gate_out' # gate_out /\ Last(gate_out').by = "gate_task")
             => \/ gate_pc = "flush"
                \/ gate_pc = "wait" /\ notifier_event /\ ~notifier_event']_vars

\* C3 witness: a closed gate holds two data frames, in arrival order, and has
\* pushed neither; an earlier held frame went out through a flush.
C3_Witness ==
    /\ ~gate_open
    /\ Len(frames_buffer) = 2
    /\ frames_buffer[1].frame.id < frames_buffer[2].frame.id
    /\ \A i \in 1..2 : frames_buffer[i].frame.kind = "TextFrame"
    /\ \E j \in 1..Len(gate_out) :
          /\ gate_out[j].by = "gate_task"
          /\ ~gate_in[gate_out[j].frame.id].open

IsTaskPush(entry) == entry.by = "gate_task"

\* The (frame, direction) pairs the release task pushed since the wake whose
\* flush is in progress, in the order it pushed them.
FlushedSinceWake ==
    LET pushes == SelectSeq(SubSeq(gate_out, wake_out + 1, Len(gate_out)), IsTaskPush)
    IN  [i \in 1..Len(pushes) |-> Pair(pushes[i].frame, pushes[i].direction)]

\* C4: on each Notifier wake the release task opens the gate and starts pushing
\* the buffer from its first pair; when it has gone through the flush it has
\* pushed exactly the pairs the buffer held at the wake, each once and in
\* buffer order, the buffer is empty and the task waits on the Notifier again.
\* No frame is ever flushed twice.
C4_WakeFlushesBufferInOrder ==
    /\ [](\A j, k \in 1..Len(gate_out) :
             (j # k /\ IsTaskPush(gate_out[j]) /\ IsTaskPush(gate_out[k]))
                => gate_out[j].frame # gate_out[k].frame)
    /\ [][/\ (gate_pc = "wait" /\ notifier_event /\ ~notifier_event')
             => /\ gate_open'
                /\ IF frames_buffer = <<>>
                   THEN /\ gate_out' = gate_out
                        /\ frames_buffer' = <<>>
                        /\ gate_pc' = "wait"
                   ELSE /\ gate_out' = Append(gate_out,
                                              Pushed(frames_buffer[1].frame,
                                                     frames_buffer[1].direction,
                                                     "gate_task", Len(gate_in)))
                        /\ gate_pc' = "flush"
          /\ (gate_pc = "flush" /\ gate_pc' = "wait")
             => /\ FlushedSinceWake = wake_buffer
                /\ frames_buffer' = <<>>
                /\ gate_task' = "Task"]_vars

\* C4 witness: the release task is waiting again after a flush of two frames,
\* with the gate open and the buffer empty.
C4_Witness ==
    /\ gate_pc = "wait"
    /\ gate_open
    /\ frames_buffer = <<>>
    /\ \E j \in 1..Len(gate_out) :
          /\ j < Len(gate_out)
          /\ IsTaskPush(gate_out[j])
          /\ IsTaskPush(gate_out[j + 1])
          /\ gate_out[j].frame.id < gate_out[j + 1].frame.id
          /\ gate_out[j].seen < gate_out[j + 1].seen

\* C5: whatever the gate state, the buffer and the Notifier flag, the
\* process_frame call that handles a StartInterruptionFrame leaves the buffer
\* empty and the gate Closed and has pushed the StartInterruptionFrame on.
C5_InterruptionClearsAndCloses ==
    [][(GateFrameStep /\ Last(gate_in').frame.kind = "StartInterruptionFrame")
       => /\ frames_buffer' = <<>>
          /\ ~gate_open'
          /\ gate_out' = Append(gate_out,
                                Pushed(Last(gate_in').frame, Last(gate_in').direction,
                                       "process_frame", Len(gate_in')))]_vars

\* C5 witness: a StartInterruptionFrame has just been handled by a gate that was
\* open, in the middle of a flush and with the Notifier signalled again.
C5_Witness ==
    /\ gate_in # <<>>
    /\ Last(gate_in).frame.kind = "StartInterruptionFrame"
    /\ Last(gate_in).open
    /\ gate_pc = "flush"
    /\ iter_idx < Len(iter_list)
    /\ notifier_event
    /\ ~gate_open
    /\ frames_buffer = <<>>
    /\ Last(gate_out).frame = Last(gate_in).frame

\* C6: a data frame the gate buffered before it processed a
\* StartInterruptionFrame is never pushed downstream after that
\* StartInterruptionFrame.
C6_NoBufferedFrameAfterInterruption ==
    \A k \in 1..Len(gate_out), i \in 1..Len(gate_in) :
        LET arrival == gate_in[gate_out[k].frame.id] IN
        (/\ gate_in[i].frame.kind = "StartInterruptionFrame"
         /\ gate_out[k].frame.id < i
         /\ ~arrival.open
         /\ Held(arrival.frame, arrival.direction))
        => gate_out[k].seen < i

\* The scenario of C7: a started gate, Closed, received three data frames
\* travelling DOWNSTREAM and then a StartInterruptionFrame, nothing was flushed
\* before the interruption, and notify() was called after it.
C7_Scenario ==
    /\ Len(gate_in) = 5
    /\ gate_in[1].frame.kind = "StartFrame"
    /\ ~gate_in[1].open
    /\ \A i \in 2..4 : /\ gate_in[i].frame.kind = "TextFrame"
                       /\ gate_in[i].direction = "DOWNSTREAM"
                       /\ ~gate_in[i].open
    /\ gate_in[5].frame.kind = "StartInterruptionFrame"
    /\ \A j \in 1..Len(gate_out) : IsTaskPush(gate_out[j]) => gate_out[j].seen = 5
    /\ notified_fresh

\* C7 as stated: in that scenario the gate is still Closed after the Notifier
\* has fired, whatever the release task has done with the notification.
C7_GateRemainsClosed == C7_Scenario => ~gate_open

\* C7 as amended: in that scenario no buffered frame is ever flushed and the
\* buffer stays empty; the gate is Closed only until the release task wakes, and
\* once the task has consumed the notification the gate is Open.
C7_GateOpensWithNothingFlushed ==
    C7_Scenario =>
        /\ \A j \in 1..Len(gate_out) : ~IsTaskPush(gate_out[j])
        /\ frames_buffer = <<>>
        /\ ~notifier_event => gate_open /\ gate_pc = "wait"

\* C7 witness: the scenario has run and the release task has woken on the
\* notification that followed the interruption.
C7_Witness ==
    /\ C7_Scenario
    /\ ~notifier_event
    /\ gate_open
    /\ Len(gate_out) = 2

\* The number of frames of class kind the audio task emitted for an audio frame.
EmittedFor(kind, audio) ==
    Cardinality({k \in 1..Len(input_out) :
                    /\ input_out[k].kind = kind
                    /\ input_out[k].by = "audio_task"
                    /\ input_out[k].audio = audio})

\* The last QUIET or SPEAKING among the results (QUIET when there is none: the
\* loop starts from QUIET).
LastSettled(results) ==
    LET settled == {i \in 1..Len(results) : results[i].state \in {"QUIET", "SPEAKING"}}
    IN  IF settled = {}
        THEN "QUIET"
        ELSE results[CHOOSE i \in settled : \A j \in settled : j <= i].state

\* A step in which _vad_analyze returns a result to the audio loop.
VadResultStep == Len(vad_results') = Len(vad_results) + 1

\* C8: in the audio loop a VAD result emits a UserStartedSpeakingFrame exactly
\* when it is SPEAKING and the last QUIET or SPEAKING result before it was QUIET,
\* a UserStoppedSpeakingFrame exactly when it is QUIET and that result was
\* SPEAKING, one frame each; a STARTING or STOPPING result emits neither.  For
\* results QUIET, STARTING, SPEAKING in a row, one UserStartedSpeakingFrame is
\* emitted, for the SPEAKING result and none for the STARTING one.
C8_OnlyQuietSpeakingEdgesEmit ==
    /\ [](\A i \in 1..Len(vad_results) :
             (/\ i + 1 < Len(vad_results)
              /\ vad_results[i].state = "QUIET"
              /\ vad_results[i + 1].state = "STARTING"
              /\ vad_results[i + 2].state = "SPEAKING")
             => /\ EmittedFor("UserStartedSpeakingFrame", vad_results[i + 2].audio) = 1
                /\ EmittedFor("UserStartedSpeakingFrame", vad_results[i + 1].audio) = 0
                /\ EmittedFor("UserStoppedSpeakingFrame", vad_results[i + 1].audio) = 0)
    /\ [][VadResultStep =>
            LET result == Last(vad_results')
                new == SubSeq(input_out', Len(input_out) + 1, Len(input_out'))
                started == {k \in 1..Len(new) : new[k].kind = "UserStartedSpeakingFrame"}
                stopped == {k \in 1..Len(new) : new[k].kind = "UserStoppedSpeakingFrame"}
            IN  /\ Cardinality(started) =
                     (IF result.state = "SPEAKING" /\ LastSettled(vad_results) = "QUIET"
                      THEN 1 ELSE 0)
                /\ Cardinality(stopped) =
                     (IF result.state = "QUIET" /\ LastSettled(vad_results) = "SPEAKING"
                      THEN 1 ELSE 0)
                /\ result.state \in {"STARTING", "STOPPING"}
                     => \A k \in 1..Len(new) : new[k].kind = "InputAudioRawFrame"]_vars

\* C8 witness: the results QUIET, STARTING, SPEAKING came in a row and the
\* UserStartedSpeakingFrame went out for the third audio frame.
C8_Witness ==
    /\ Len(vad_results) = 3
    /\ vad_results[1].state = "QUIET"
    /\ vad_results[2].state = "STARTING"
    /\ vad_results[3].state = "SPEAKING"
    /\ EmittedFor("UserStartedSpeakingFrame", vad_results[3].audio) = 1

IsNotAudio(entry) == entry.kind # "InputAudioRawFrame"

\* The classes of the non-audio frames emitted so far, in order.
NonAudioKinds ==
    LET frames == SelectSeq(input_out, IsNotAudio)
    IN  [k \in 1..Len(frames) |-> frames[k].kind]

\* The scenario of C9: interruptions enabled, no end-of-turn analyzer, a
\* StartFrame as the only frame delivered, and the VAD results QUIET, SPEAKING,
\* QUIET.
C9_Scenario ==
    /\ params.interruptions_allowed
    /\ ~params.end_of_turn_analyzer
    /\ frames_in = <<"StartFrame">>
    /\ Len(vad_results) = 3
    /\ vad_results[1].state = "QUIET"
    /\ vad_results[2].state = "SPEAKING"
    /\ vad_results[3].state = "QUIET"

\* C9: in that scenario the non-audio frames the transport emitted after the
\* StartFrame are exactly UserStartedSpeakingFrame, StartInterruptionFrame,
\* UserStoppedSpeakingFrame, StopInterruptionFrame, in this order, once each.
C9_SpeakingThenQuietFrames ==
    C9_Scenario =>
        NonAudioKinds = <<"StartFrame", "UserStartedSpeakingFrame",
                          "StartInterruptionFrame", "UserStoppedSpeakingFrame",
                          "StopInterruptionFrame">>

\* C9 witness: the scenario has run, with the audio frames passed through.
C9_Witness ==
    /\ C9_Scenario
    /\ Len(NonAudioKinds) = 5
    /\ Len(input_out) = 8
    /\ audio_pc = "get"

\* C10: among the frames the input transport emitted, no two
\* StartInterruptionFrames occur without a StopInterruptionFrame between them.
C10_OneInterruptionWindow ==
    \A i, j \in 1..Len(input_out) :
        (/\ i < j
         /\ input_out[i].kind = "StartInterruptionFrame"
         /\ input_out[j].kind = "StartInterruptionFrame")
        => \E k \in (i + 1)..(j - 1) : input_out[k].kind = "StopInterruptionFrame"

\* The number of frames of class kind the transport emitted.
EmittedCount(kind) ==
    Cardinality({k \in 1..Len(input_out) : input_out[k].kind = kind})

\* C11: every classifier call that raised left one ErrorFrame in the output,
\* and the audio task was not ended by it.
C11_ClassifierFailureIsNotFatal ==
    /\ EmittedCount("ErrorFrame") = analyzer_raised
    /\ audio_pc # "raised"

\* The calls the executor holds, running or queued.
ExecutorCalls ==
    executor.running \cup {executor.pending[i] : i \in 1..Len(executor.pending)}

\* The call the audio task is waiting for, if any.
AwaitedCalls ==
    IF audio_pc \in {"vad", "eot"} THEN {Call(audio_pc, audio_frame)} ELSE {}

\* C12: at most one classifier call is executing; the audio task awaits at most
\* one call and the executor holds nothing else but a call abandoned by a
\* cancelled task, which is for an earlier frame and runs first; results arrive
\* in the order the frames were enqueued; the call awaited is for a later frame
\* than every result so far, except that the end-of-turn call on a frame comes
\* after the VAD result for that frame.
C12_ClassificationIsSerialized ==
    /\ Cardinality(executor.running) <= 1
    /\ AwaitedCalls \subseteq ExecutorCalls
    /\ \A c \in executor.running, i \in 1..Len(executor.pending) :
          /\ executor.pending[i] \in AwaitedCalls
          /\ c.audio < executor.pending[i].audio
    /\ \A i, j \in 1..Len(vad_results) :
          i < j => vad_results[i].audio < vad_results[j].audio
    /\ \A i, j \in 1..Len(eot_results) :
          i < j => eot_results[i].audio < eot_results[j].audio
    /\ \A i \in 1..Len(eot_results) :
          params.vad_enabled =>
             \E j \in 1..Len(vad_results) : vad_results[j].audio = eot_results[i].audio
    /\ \A c \in AwaitedCalls :
          /\ \A i \in 1..Len(eot_results) : eot_results[i].audio < c.audio
          /\ \A i \in 1..Len(vad_results) :
                \/ vad_results[i].audio < c.audio
                \/ vad_results[i].audio = c.audio /\ c.analyzer = "eot"
          /\ (c.analyzer = "eot" /\ params.vad_enabled) =>
                \E i \in 1..Len(vad_results) : vad_results[i].audio = c.audio

\* C12 witness: the single worker thread still runs the call of a cancelled
\* task while the call of the new task waits in the executor's queue.
C12_Witness ==
    /\ Cardinality(executor.running) = 1
    /\ Len(executor.pending) = 1
    /\ executor.pending[1] \in AwaitedCalls

\* C13: when the StartFrame is the first frame delivered, it is the first
\* frame the transport pushes, and nothing the audio loop pushes comes before
\* it; the audio loop never pushes anything before a StartFrame has gone out.
C13_StartFrameFirst ==
    /\ (frames_in # <<>> /\ frames_in[1] = "StartFrame")
          => /\ input_out # <<>>
             /\ input_out[1] = ForwardedFrame("StartFrame")
    /\ \A k \in 1..Len(input_out) :
          input_out[k].by = "audio_task"
             => \E h \in 1..(k - 1) : input_out[h].kind = "StartFrame"

\* C13 witness: after the StartFrame the audio loop pushed a speech-transition
\* frame and an audio frame.
C13_Witness ==
    /\ frames_in # <<>>
    /\ frames_in[1] = "StartFrame"
    /\ \E j, k \in 2..Len(input_out) :
          /\ input_out[j].kind = "UserStartedSpeakingFrame"
          /\ input_out[j].by = "audio_task"
          /\ input_out[k].kind = "InputAudioRawFrame"

\* C14: the process_frame call that receives an EndFrame pushes it on to the
\* neighbour, and the shutdown routine has run when the call returns (the gate
\* no longer has a release task).
C14_EndFramePushedBeforeShutdown ==
    [][(GateFrameStep /\ Last(gate_in').frame.kind = "EndFrame")
       => /\ gate_out' = Append(gate_out,
                                Pushed(Last(gate_in').frame, Last(gate_in').direction,
                                       "process_frame", Len(gate_in')))
          /\ gate_task' = "None"]_vars

\* C15: after process_frame has handled a CancelFrame or an EndFrame, the gate
\* has no release task and no release task of it is still running.
C15_GateTaskCancelledOnCancelAndEnd ==
    [][(GateFrameStep /\ Last(gate_in').frame.kind \in {"CancelFrame", "EndFrame"})
       => /\ gate_task' = "None"
          /\ gate_pc' = "dead"]_vars

\* The transport pushed a StartFrame between positions i and j of its output.
StartFrameBetween(i, j) ==
    \E k \in (i + 1)..(j - 1) : input_out[k].kind = "StartFrame"

\* C16: once the transport has pushed an EndFrame, its audio loop pushes
\* nothing after it (until a new StartFrame starts the transport again).
C16_EndFrameFollowsLastData ==
    \A i, j \in 1..Len(input_out) :
        (/\ i < j
         /\ input_out[i].kind = "EndFrame"
         /\ input_out[j].by = "audio_task")
        => StartFrameBetween(i, j)

\* The transport has no audio task left, named or running.
AudioTaskGone == audio_task = "None" /\ audio_pc = "dead"

\* C17: when process_frame has handled a CancelFrame (cancel() has returned and
\* the CancelFrame was pushed after it), and when stop() has returned after an
\* EndFrame, the audio task has terminated; the audio loop pushes nothing after
\* a CancelFrame the transport pushed (until a new StartFrame starts it again).
C17_CancelWaitsForAudioTask ==
    /\ (frames_in # <<>> /\ Last(frames_in) = "CancelFrame")
          => /\ AudioTaskGone
             /\ Last(input_out) = ForwardedFrame("CancelFrame")
    /\ (frames_in # <<>> /\ Last(frames_in) = "EndFrame" /\ input_pc = "idle")
          => AudioTaskGone
    /\ \A i, j \in 1..Len(input_out) :
          (/\ i < j
           /\ input_out[i].kind = "CancelFrame"
           /\ input_out[j].by = "audio_task")
          => StartFrameBetween(i, j)

\* C17 witness: a CancelFrame ended the audio task while it awaited a
\* classifier call, with an audio frame still in the queue.
C17_Witness ==
    /\ frames_in # <<>>
    /\ Last(frames_in) = "CancelFrame"
    /\ AudioTaskGone
    /\ audio_in_queue # <<>>
    /\ executor.running # {}
    /\ Last(input_out).kind = "CancelFrame"

\* The transport is started: a StartFrame was delivered and no CancelFrame or
\* EndFrame since.
InputStarted ==
    \E i \in 1..Len(frames_in) :
        /\ frames_in[i] = "StartFrame"
        /\ \A j \in (i + 1)..Len(frames_in) : frames_in[j] \notin {"CancelFrame", "EndFrame"}

\* C18: a StartFrame delivered to a started transport applies no configuration
\* again and leaves the state of the transport as it was.
C18_SecondStartFrameChangesNothing ==
    [][(InputStarted /\ frames_in' = Append(frames_in, "StartFrame"))
       => /\ configured' = configured
          /\ <<audio_task, audio_pc, audio_in_queue, audio_frame, vad_state,
               end_of_turn_state, executor>>'
             = <<audio_task, audio_pc, audio_in_queue, audio_frame, vad_state,
                 end_of_turn_state, executor>>]_vars

\* C19: for every result of the end-of-turn analyzer the audio loop pushed one
\* UserEndOfTurnFrame if the result differs from the result for the previous
\* frame (INCOMPLETE before the first), and none if it is the same.
C19_EndOfTurnFrameOnChange ==
    \A i \in 1..Len(eot_results) :
        LET previous == IF i = 1 THEN "INCOMPLETE" ELSE eot_results[i - 1].state IN
        EmittedFor("UserEndOfTurnFrame", eot_results[i].audio)
           = (IF eot_results[i].state # previous THEN 1 ELSE 0)

\* C19 witness: the results COMPLETE, COMPLETE, INCOMPLETE gave two
\* UserEndOfTurnFrames, for the first and the third frame.
C19_Witness ==
    /\ Len(eot_results) = 3
    /\ eot_results[1].state = "COMPLETE"
    /\ eot_results[2].state = "COMPLETE"
    /\ eot_results[3].state = "INCOMPLETE"
    /\ EmittedFor("UserEndOfTurnFrame", eot_results[1].audio) = 1
    /\ EmittedFor("UserEndOfTurnFrame", eot_results[2].audio) = 0
    /\ EmittedFor("UserEndOfTurnFrame", eot_results[3].audio) = 1

\* The audio frames the loop took from the queue and is done with, in a run
\* whose only delivered frame is the StartFrame.
AudioFramesDone ==
    {a \in 1..audio_pushed :
        /\ a # audio_frame
        /\ \A i \in 1..Len(audio_in_queue) : audio_in_queue[i] # a}

\* C20: an audio frame the loop took from the queue is pushed once if
\* pass-through is on and never if it is off; forwarded audio frames keep the
\* queue order; a transition frame caused by an audio frame is pushed before
\* that frame.
C20_AudioForwardedOnceIfPassthrough ==
    /\ frames_in = <<"StartFrame">>
          => \A a \in AudioFramesDone :
                EmittedFor("InputAudioRawFrame", a) = (IF AudioPassthrough THEN 1 ELSE 0)
    /\ \A i, j \in 1..Len(input_out) :
          (/\ i < j
           /\ input_out[i].by = "audio_task"
           /\ input_out[j].by = "audio_task")
          => /\ input_out[i].audio <= input_out[j].audio
             /\ input_out[i].audio = input_out[j].audio
                   => input_out[i].kind # "InputAudioRawFrame"

\* C30: every StopInterruptionFrame the input transport emitted is preceded by
\* a StartInterruptionFrame with no other StopInterruptionFrame between the
\* two.
C30_StopClosesAnOpenWindow ==
    \A j \in 1..Len(input_out) :
        input_out[j].kind = "StopInterruptionFrame"
        => \E i \in 1..(j - 1) :
               /\ input_out[i].kind = "StartInterruptionFrame"
               /\ \A k \in (i + 1)..(j - 1) :
                      input_out[k].kind # "StopInterruptionFrame"

\* C21: a call of start() makes at most max_retries connection attempts, and
\* it ends either by returning with the websocket OPEN or by raising
\* RuntimeError.
C21_StartEndsWithinThreeAttempts ==
    /\ stt.attempts <= max_retries
    /\ stt.start_result \in {"none", "running", "returned OPEN", "RuntimeError"}

\* Coroutine c is inside the connect sequence of _connect: it disconnects the
\* old client, awaits websocket_connect, or disconnects after a failure.
InConnectSequence(c) ==
    \/ stt.pc[c].at = "websocket_connect"
    \/ /\ stt.pc[c].at \in {"cancel_task", "send_end", "close"}
       /\ stt.pc[c].ctx \in {"old", "failed"}

\* C22: at most one coroutine of the service is inside the connect sequence,
\* and that coroutine holds the connection lock.
C22_OneConnectSequenceAtATime ==
    /\ Cardinality({c \in STTCallers : InConnectSequence(c)}) <= 1
    /\ \A c \in STTCallers : InConnectSequence(c) => stt.connection_lock = c

\* run_stt waits for the lock while start() is inside the connect sequence.
C22_Witness ==
    /\ InConnectSequence("start")
    /\ stt.pc["run_stt"].at = "lock"
    /\ stt.pc["stop"].at # "idle"

\* run_stt yielded an ErrorFrame for audio chunk k.
ErrorFrameFor(k) ==
    \E i \in 1..Len(stt.yielded) :
        /\ stt.yielded[i].kind = "ErrorFrame"
        /\ stt.yielded[i].chunk = k

\* C23: every failure of run_stt to reconnect or to send left an ErrorFrame
\* for its chunk, every frame run_stt yielded is an ErrorFrame that is not
\* fatal, and each call of run_stt that began has ended or can go on.
C23_FailuresAreNonFatalErrorFrames ==
    /\ \A f \in stt.failures : ErrorFrameFor(f[1])
    /\ \A i \in 1..Len(stt.yielded) :
           stt.yielded[i].kind = "ErrorFrame" /\ ~stt.yielded[i].fatal
    /\ stt.pc["run_stt"].at \in
           {"idle", "lock", "websocket_connect", "cancel_task", "send_end",
            "close", "send", "yield"}

\* C24: every audio chunk whose run_stt call ended without the chunk having
\* been sent has an ErrorFrame among the frames run_stt yielded.
C24_UnsentChunkHasErrorFrame ==
    \A k \in stt.finished \ stt.sent : ErrorFrameFor(k)

\* C25: every construction of RemoteSmartTurnAnalyzer with
\* REMOTE_SMART_TURN_URL unset or empty, and of LocalCoreMLSmartTurnAnalyzer
\* with an empty smart_turn_model_path, raised, gave the caller no object and
\* loaded no model.
C25_MissingConfigurationAborts ==
    \A i \in 1..Len(analyzers) :
        analyzers[i].config \in {"None", ""}
        => /\ analyzers[i].raised
           /\ analyzers[i].object = "None"
           /\ analyzers[i].loads = 0

\* Both adapters were constructed without their configuration, the remote one
\* with the variable unset and with the variable empty.
C25_Witness ==
    /\ Len(analyzers) = 3
    /\ analyzers[1] =
           Construction("RemoteSmartTurnAnalyzer", "None", TRUE, 0, "None")
    /\ analyzers[2].class = "RemoteSmartTurnAnalyzer"
    /\ analyzers[2].config = ""
    /\ analyzers[3].class = "LocalCoreMLSmartTurnAnalyzer"
    /\ analyzers[3].config = ""

\* The frames of the submission queue among the delivered ones, in the order
\* of their delivery.
DeliveredSubmitted ==
    SelectSeq(pipeline_task.delivered, LAMBDA f : f.id # 0)

\* C26: the submitted frames the PipelineTask has delivered to the pipeline
\* were delivered in the order of their submission.
C26_DeliveredInSubmissionOrder ==
    \A i, j \in 1..Len(DeliveredSubmitted) :
        i < j => DeliveredSubmitted[i].id < DeliveredSubmitted[j].id

\* Three frames were delivered: two of one queue_frames list and one of a
\* later call.
C26_Witness ==
    /\ Len(DeliveredSubmitted) = 3
    /\ DeliveredSubmitted[1].call = DeliveredSubmitted[2].call
    /\ DeliveredSubmitted[3].call # DeliveredSubmitted[2].call

\* The place of the CancelFrame among the delivered frames (0: not delivered).
CancelFrameAt ==
    IF \E i \in 1..Len(pipeline_task.delivered) :
           pipeline_task.delivered[i].kind = "CancelFrame"
    THEN CHOOSE i \in 1..Len(pipeline_task.delivered) :
             pipeline_task.delivered[i].kind = "CancelFrame"
    ELSE 0

\* C27: a frame that was pending in the submission queue when cancel() was
\* called is not delivered before the CancelFrame.
C27_CancelFrameAheadOfPending ==
    \A i \in 1..Len(pipeline_task.delivered) :
        pipeline_task.delivered[i].id \in pipeline_task.pending_at_cancel
        => (CancelFrameAt # 0 /\ CancelFrameAt < i)

\* cancel() was called with two frames pending and the CancelFrame has been
\* delivered, after a frame submitted earlier.
C27_Witness ==
    /\ Cardinality(pipeline_task.pending_at_cancel) = 2
    /\ CancelFrameAt = 3
    /\ Len(pipeline_task.queue) >= 2

\* C28: no waiter is still blocked in wait() once a notify has been made
\* after it blocked: whenever a waiter is blocked, it waits for a signal that
\* has not been given yet, and every waiter that was blocked at an earlier
\* notify has been released.
C28_NoLostWakeUp ==
    \A w \in Waiters :
        notifier.waiters[w].state = "blocked"
        => notifier.waiters[w].since = notifier.notifies

\* A notify released three blocked waiters, and one of them has since called
\* wait() again and blocks on a new signal while the others have yet to run.
C28_Witness ==
    /\ notifier.released_by_last = MaxWaiters
    /\ notifier.notifies >= 1
    /\ \E w \in Waiters : notifier.waiters[w].state = "blocked"
    /\ \E w \in Waiters : notifier.waiters[w].state = "woken"

\* s is an initial part of t.
IsPrefix(s, t) == Len(s) <= Len(t) /\ SubSeq(t, 1, Len(s)) = s

\* No branch has a frame left to handle and no System frame is on its way.
ParallelDrained ==
    /\ parallel_pipeline.system = NoFrame
    /\ \A b \in Branches : parallel_pipeline.queues[b] = <<>>

C31_EndOfTurnFrameMeansComplete ==
    \A i \in 1..Len(eot_results) :
        EmittedFor("UserEndOfTurnFrame", eot_results[i].audio) > 0
        => /\ eot_results[i].state = "COMPLETE"
           /\ (i > 1 => eot_results[i - 1].state = "INCOMPLETE")
           /\ (i = Len(eot_results) => end_of_turn_state = "COMPLETE")

\* The state _vad_analyze returned for audio frame `audio` ("None" when the
\* loop asked for none).
VadResultFor(audio) ==
    IF \E i \in 1..Len(vad_results) : vad_results[i].audio = audio
    THEN vad_results[CHOOSE i \in 1..Len(vad_results) :
                         vad_results[i].audio = audio].state
    ELSE "None"

\* C33: the end-of-turn analyzer was called with is_speech true for every
\* audio frame whose VAD result is SPEAKING or STARTING, and with is_speech
\* false for every frame whose VAD result is QUIET or STOPPING.
C33_IsSpeechFollowsVadResult ==
    \A i \in 1..Len(eot_results) :
        VadResultFor(eot_results[i].audio) # "None"
        => eot_results[i].is_speech
              = (VadResultFor(eot_results[i].audio) \in {"SPEAKING", "STARTING"})

\* The UserStartedSpeakingFrames and UserStoppedSpeakingFrames the running
\* audio loop emitted for its VAD results, in the order of their emission.
LoopSpeakingFrames ==
    SelectSeq(input_out,
              LAMBDA e :
                  /\ e.by = "audio_task"
                  /\ e.kind \in {"UserStartedSpeakingFrame",
                                 "UserStoppedSpeakingFrame"}
                  /\ \E i \in 1..Len(vad_results) : vad_results[i].audio = e.audio)

\* C36: the VAD state the audio loop tracks is QUIET or SPEAKING, and the
\* speaking frames the loop emitted for its VAD results alternate:
\* UserStartedSpeakingFrame first, then UserStoppedSpeakingFrame, and so on.
C36_SpeakingFramesAlternate ==
    /\ vad_state \in {"QUIET", "SPEAKING"}
    /\ \A k \in 1..Len(LoopSpeakingFrames) :
           LoopSpeakingFrames[k].kind =
               (IF k % 2 = 1 THEN "UserStartedSpeakingFrame"
                             ELSE "UserStoppedSpeakingFrame")

\* The loop went from QUIET through STARTING to SPEAKING, back to QUIET and
\* to SPEAKING again: three speaking frames.
C36_Witness ==
    /\ Len(LoopSpeakingFrames) = 3
    /\ \E i \in 1..Len(vad_results) : vad_results[i].state = "STARTING"
    /\ vad_state = "SPEAKING"

\* The number of frames of class kind delivered to process_frame.
DeliveredCount(kind) ==
    Cardinality({k \in 1..Len(frames_in) : frames_in[k] = kind})

\* The number of emulated speaking frames of class kind the transport emitted.
EmulatedCount(kind) ==
    Cardinality({k \in 1..Len(input_out) :
                    input_out[k].kind = kind /\ input_out[k].emulated})

\* C37: with interruptions not allowed the transport has emitted no
\* StartInterruptionFrame and no StopInterruptionFrame, and it has emitted one
\* UserStartedSpeakingFrame or UserStoppedSpeakingFrame for every emulated
\* speaking frame delivered to it.
C37_NoInterruptionFramesWhenNotAllowed ==
    ~params.interruptions_allowed
    => /\ EmittedCount("StartInterruptionFrame") = 0
       /\ EmittedCount("StopInterruptionFrame") = 0
       /\ EmulatedCount("UserStartedSpeakingFrame")
              = DeliveredCount("EmulateUserStartedSpeakingFrame")
       /\ EmulatedCount("UserStoppedSpeakingFrame")
              = DeliveredCount("EmulateUserStoppedSpeakingFrame")

\* Interruptions are not allowed; a VAD transition, a BotInterruptionFrame and
\* an EmulateUserStoppedSpeakingFrame have been handled, and the speaking
\* frames went out.
C37_Witness ==
    /\ ~params.interruptions_allowed
    /\ DeliveredCount("BotInterruptionFrame") = 1
    /\ EmulatedCount("UserStoppedSpeakingFrame") = 1
    /\ \E k \in 1..Len(input_out) :
           /\ input_out[k].kind = "UserStartedSpeakingFrame"
           /\ input_out[k].by = "audio_task"

\* gate_out[k] is a push of a data frame that travels DOWNSTREAM.
IsDataPush(k) == Held(gate_out[k].frame, gate_out[k].direction)

\* C32: the data frames travelling DOWNSTREAM that the gate forwarded leave it
\* in arrival order: of two such frames that were both pushed, the one that
\* arrived first is pushed first, also when the later one arrived while the
\* flush releasing the earlier one was in progress.
C32_DataFramesKeepArrivalOrder ==
    \A k, l \in 1..Len(gate_out) :
        (/\ IsDataPush(k)
         /\ IsDataPush(l)
         /\ gate_out[k].frame.id < gate_out[l].frame.id)
        => k < l

\* C34: once the gate has processed a StartInterruptionFrame it is Closed for
\* as long as no notify() has been called after that frame: a notify() called
\* before the interruption does not open it, whenever the release task handles
\* the wake-up.
C34_StaleNotifyDoesNotOpen ==
    (\E i \in 1..Len(gate_in) : gate_in[i].frame.kind = "StartInterruptionFrame")
        /\ ~notified_fresh
    => ~gate_open

\* The frame delivered as gate_in[i] was appended to the buffer: a data frame
\* travelling DOWNSTREAM that found the gate Closed.
Buffered(i) ==
    /\ ~gate_in[i].open
    /\ Held(gate_in[i].frame, gate_in[i].direction)

\* C35: a data frame the gate appended to its buffer, with no
\* StartInterruptionFrame and no StartFrame processed after it, is in the buffer
\* or has been pushed downstream; a flush that resets the buffer discards no
\* frame buffered while it was in progress.
C35_NoFrameLostOutsideInterruption ==
    \A i \in 1..Len(gate_in) :
        (/\ Buffered(i)
         /\ \A j \in (i + 1)..Len(gate_in) :
                gate_in[j].frame.kind \notin {"StartInterruptionFrame", "StartFrame"})
        => \/ ~NotInBuffer(frames_buffer, gate_in[i].frame)
           \/ \E k \in 1..Len(gate_out) : gate_out[k].frame = gate_in[i].frame

\* A step in which run_stt begins to await the send of its chunk.
RunSttSendStep == stt.pc["run_stt"].at # "send" /\ stt'.pc["run_stt"].at = "send"

\* C38: with no start() and no stop() in progress, run_stt sends its chunk on
\* an OPEN websocket only while a receive loop is running for that websocket:
\* when the loop has exited, run_stt connects again, with a new receive loop,
\* before it sends.
C38_SendHasReceiveLoop ==
    [][(/\ RunSttSendStep
        /\ stt.pc["start"] = NotRunning
        /\ stt.pc["stop"] = NotRunning
        /\ stt'.sockets[stt'.pc["run_stt"].sock] = "OPEN")
       => stt'.pc["run_stt"].sock \in stt'.loops]_vars

\* The websockets the service opened that are still OPEN.
Unclosed == {i \in 1..Len(stt.sockets) : stt.sockets[i] = "OPEN"}

\* A step in which the _disconnect that stop() or cancel() called returns.
StopDisconnectReturns ==
    /\ stt.pc["stop"].at \in {"cancel_task", "send_end", "close"}
    /\ stt'.pc["stop"] = NotRunning

\* C39: whatever the interleaving of start(), run_stt() and stop() or cancel(),
\* at most one receive loop is alive and at most one websocket the service
\* opened is OPEN, and when the _disconnect called by stop() or cancel()
\* returns, _ws_client and _receive_task are both None.
C39_OneLoopOneSocket ==
    /\ [](Cardinality(stt.loops) <= 1)
    /\ [](Cardinality(Unclosed) <= 1)
    /\ [][StopDisconnectReturns
           => stt'.ws_client = 0 /\ stt'.receive_task = 0]_vars

\* ------------------------------------------- Start, stop and cancel together
\* The input transport and the gate of one pipeline, side by side, driven by
\* the frames that start and end their background tasks and by the frames the
\* tasks work on.

\* The number of frames delivered to the two processors together.
MaxLifecycleEvents == 5

LifecycleEvents == Len(frames_in) + audio_pushed + Len(gate_in)

\* A StartFrame, EndFrame or CancelFrame reaches the input transport.
LifecycleInputFrameArrives ==
    \E kind \in {"StartFrame", "EndFrame", "CancelFrame"} :
        /\ LifecycleEvents < MaxLifecycleEvents
        /\ BaseInputTransport_process_frame(kind)
        /\ UNCHANGED not_input_vars

\* The transport implementation hands an audio frame to push_audio_frame.
LifecyclePushAudioFrame ==
    /\ LifecycleEvents < MaxLifecycleEvents
    /\ PushAudioFrame

\* A StartFrame, EndFrame, CancelFrame or a data frame reaches the gate,
\* travelling DOWNSTREAM.
LifecycleGateFrameArrives ==
    \E kind \in {"StartFrame", "EndFrame", "CancelFrame", "TextFrame"} :
        /\ LifecycleEvents < MaxLifecycleEvents
        /\ OutputGate_process_frame([kind |-> kind, id |-> Len(gate_in) + 1],
                                    "DOWNSTREAM")
        /\ UNCHANGED not_gate_vars

LifecycleNext ==
    \/ LifecycleInputFrameArrives
    \/ InputStopAfterEndFrame
    \/ LifecyclePushAudioFrame
    \/ AudioTaskGet
    \/ AudioTaskVadReturns
    \/ AudioTaskEndOfTurnReturns
    \/ AudioTaskAnalyzerRaises
    \/ ExecutorAbandonedCallDone
    \/ LifecycleGateFrameArrives
    \/ Notify
    \/ GateTaskWake
    \/ GateTaskPushNext
    \/ GateTaskEndFlush

SpecLifecycleInit == GateInit /\ InputInit /\ STTConstructed /\ OthersNotUsed

SpecLifecycle == SpecLifecycleInit /\ [][LifecycleNext]_vars

\* The audio task of the transport is running.
AudioTaskLive == audio_pc \notin {"dead", "raised"}

\* The release task of the gate is running.
GateTaskLive == gate_pc # "dead"

\* C40: neither processor runs two copies of its background task: a task is
\* created only when none of that processor is running, and a running task is
\* the one the processor's attribute names, whatever the order of StartFrame,
\* EndFrame and CancelFrame deliveries.
C40_AtMostOneBackgroundTask ==
    /\ [](AudioTaskLive => audio_task = "Task")
    /\ [](GateTaskLive => gate_task = "Task")
    /\ [][/\ (audio_task = "None" /\ audio_task' = "Task") => ~AudioTaskLive
          /\ (gate_task = "None" /\ gate_task' = "Task") => ~GateTaskLive]_vars

\* C40 witness: the transport was started, cancelled and started again; the
\* gate received a second StartFrame while its release task was running; both
\* tasks are running.
C40_Witness ==
    /\ \E i, j, k \in 1..Len(frames_in) :
           /\ i < j /\ j < k
           /\ frames_in[i] = "StartFrame"
           /\ frames_in[j] = "CancelFrame"
           /\ frames_in[k] = "StartFrame"
    /\ AudioTaskLive
    /\ Len(gate_in) = 2
    /\ gate_in[1].frame.kind = "StartFrame"
    /\ gate_in[2].frame.kind = "StartFrame"
    /\ GateTaskLive

====
